---- MODULE Spec2Model ----
(***************************************************************************)
(* Session layer of the ENet binding: ENetBase / Server / Client of the    *)
(* JavaScript wrapper and the ENetWrapper native addon it drives.          *)
(*                                                                         *)
(* One session is modelled.  Every action is one JavaScript macro-step:    *)
(* the code that runs between two awaits, with the subscriber callbacks    *)
(* that emit() runs inline.  The variables last, emitted and calls are     *)
(* history variables: they record the operation that ran last, what it     *)
(* published and which addon methods it invoked.                           *)
(***************************************************************************)
EXTENDS Integers, Sequences, FiniteSets, TLC

\* ----------------------------------------------------------------- bounds
MaxPeers == 2
MaxLoops == 2
MaxInterval == 3
MaxTicks == 1
MaxCalls == 2
MaxOthers == 2
MaxSubs == 2
MaxSends == 2
MaxSize == 4

\* ------------------------------------------------------ program constants
NullPeer == 0
ClientPeerCount == 1
DefaultPoll == 2
DefaultMaxPoll == 32
PACKET_FLAG_RELIABLE == 1
PACKET_FLAG_UNSEQUENCED == 2
PACKET_FLAG_NO_ALLOCATE == 4
PACKET_FLAG_UNRELIABLE_FRAGMENT == 8
PACKET_FLAG_SENT == 256
NaN == -1

Peers == 1..MaxPeers
Handles == Peers \cup {NullPeer}
Loops == 1..MaxLoops
Calls == 1..MaxCalls
Others == 1..MaxOthers

VARIABLES
    role,          \* "server" | "client": the class of the session
    peers,         \* this.peers: the Map, as its entries in insertion order
    hostCreated,   \* this.hostCreated
    running,       \* this.running
    serverPeer,    \* Client.serverPeer (NullPeer when null)
    host,          \* ENetWrapper::host != nullptr
    initialized,   \* ENetWrapper::initialized
    tpeer,         \* the transport's state of each peer slot of the host
    loops,         \* the activations of ENetBase.listen
    readyTicks,    \* process.nextTick callbacks of Server.listen not yet run
    creating,      \* the createServer() call awaiting its port probe
    crashed,       \* the process was ended by undefined behaviour
    eventCallbacks, \* this.eventCallbacks.connect: what connect() registered
    waits,         \* the connect() calls that have not returned, or left a
                   \* subscriber behind
    initCount,     \* g_enetInitCount
    engineUp,      \* enet_initialize has run and enet_deinitialize has not
    otherInit,     \* ENetWrapper::initialized of the other wrappers
    threads,       \* where the thread of each other wrapper stands inside
                   \* ENetWrapper::Initialize or Deinitialize
    settled,       \* history: what the connect() calls did in this step
    engineOps,     \* history: the engine init / teardown calls of this step
    attempts,      \* history: the sends broadcast() attempted in this step
    config,        \* this.config: the build of the wrapper and the toggles
    opts,          \* the toggles setupHost applied to the host last
    builder,       \* a RawPacketBuilder: its buffer, its offset, and as
                   \* history the bytes it was asked to write since reset
    wire,          \* history: the packets that the send() / sendRawPacket()
                   \* calls made in a row handed to enet_peer_send
    last,          \* history: the operation that ran last
    emitted,       \* history: what that operation published, in order
    calls          \* history: the addon methods that operation invoked

vars == << role, peers, hostCreated, running, serverPeer, host, initialized,
           tpeer, loops, readyTicks, creating, crashed, eventCallbacks, waits,
           initCount, engineUp, otherInit, threads, settled, engineOps,
           attempts, wire, config, opts, builder,
           last, emitted, calls >>

\* ---------------------------------------------------------------- records
NoEvent == [type |-> "none", peer |-> NullPeer, data |-> ""]
Ev(t, p) == [type |-> t, peer |-> p, data |-> ""]

\* a Receive event: data is the Buffer copied from the packet
Received(p) == [type |-> "receive", peer |-> p, data |-> "packet.data"]

\* one publication on the event bus, with the registry as the subscribers see it
Pub(t, p, e, reg) ==
    [type |-> t, peer |-> p, err |-> e, reg |-> reg, data |-> ""]

\* One activation of ENetBase.listen: its arguments and its currentInterval.
\* pc is "sleep" while the loop awaits its setTimeout; an activation that the
\* while test or the catch has ended holds nothing any more and is "idle".
IdleLoop == [pc |-> "idle", poll |-> 0, max |-> 0, cur |-> 0]
Ended(lp) == IdleLoop

NoCreate == [active |-> FALSE, thenListen |-> FALSE]

Op(name, p, kind, status) ==
    [op |-> name, peer |-> p, kind |-> kind, status |-> status,
     ev |-> NoEvent, loop |-> 0, timeout |-> 0, poll |-> 0, max |-> 0,
     wasReg |-> FALSE,
     spWas |-> NullPeer, raised |-> FALSE]

\* --------------------------------------------------------------- registry
\* Map.has
Has(reg, p) == \E i \in 1..Len(reg) : reg[i].id = p

\* number of entries the registry holds for p
Count(reg, p) == Cardinality({i \in 1..Len(reg) : reg[i].id = p})

\* Map.get, for a key the Map has
Get(reg, p) == reg[CHOOSE i \in 1..Len(reg) : reg[i].id = p]

\* Map.set: an existing key keeps its position, a new key goes last
MapSet(reg, p, rec) ==
    IF Has(reg, p)
    THEN [i \in 1..Len(reg) |-> IF reg[i].id = p THEN rec ELSE reg[i]]
    ELSE Append(reg, rec)

\* Map.delete
MapDelete(reg, p) == SelectSeq(reg, LAMBDA r : r.id # p)

Rec(p, c, a, po) == [id |-> p, connected |-> c, address |-> a, port |-> po]

\* ----------------------------------------------------- transport (ENet)
\* State of a peer slot of the host: "free" (ENET_PEER_STATE_DISCONNECTED),
\* "connecting", "connected", "disconnecting" (disconnect requested, the slot
\* is still held until the acknowledgment or the timeout).
FreeSlots == [p \in Peers |-> "free"]

\* slots of the host: createClient asks for peerCount 1, createServer for maxPeer
HostPeers == IF role = "client" THEN 1..ClientPeerCount ELSE Peers

\* what one enet_host_service call can report: result < 0, result = 0, or an event
OutcomesOn(tp) ==
    {Ev("fatal", NullPeer), NoEvent, Ev("unknown", NullPeer)}
    \cup {Ev("connect", p) : p \in {q \in HostPeers :
              tp[q] = "connecting" \/ (role = "server" /\ tp[q] = "free")}}
    \cup {Ev("disconnect", p) : p \in {q \in HostPeers : tp[q] # "free"}}
    \cup {Received(p) : p \in {q \in HostPeers :
              tp[q] \in {"connected", "disconnecting"}}}

ServiceOutcomes == OutcomesOn(tpeer)

\* the slot states after enet_host_service reported out
AfterService(tp, out) ==
    IF out.type = "connect" THEN [tp EXCEPT ![out.peer] = "connected"]
    ELSE IF out.type = "disconnect" THEN [tp EXCEPT ![out.peer] = "free"]
    ELSE tp

\* enet_peer_disconnect / _now / _later on a slot of a live host
AfterDisconnect(tp, kind, p) ==
    IF kind = "disconnectNow" THEN [tp EXCEPT ![p] = "free"]
    ELSE IF tp[p] = "connected" THEN [tp EXCEPT ![p] = "disconnecting"]
    ELSE IF tp[p] = "connecting" THEN [tp EXCEPT ![p] = "free"]
    ELSE tp

\* enet_peer_send on a slot of a live host: -1 unless the peer is connected;
\* st is the engine's answer for a connected peer (0 queued, -1 rejected)
PeerSendStatus(tp, p, st) == IF tp[p] = "connected" THEN st ELSE -1

\* ------------------------------------------------------------- event bus
\* a connect case that stores a fresh record over the one it finds
OnConnectFresh(reg, p) == MapSet(reg, p, Rec(p, TRUE, "undefined", "undefined"))

\* ENetBase.handleEvent, the registry part of the connect case
OnConnect(reg, p) ==
    IF Has(reg, p)
    THEN [i \in 1..Len(reg) |->
            IF reg[i].id = p THEN [reg[i] EXCEPT !.connected = TRUE] ELSE reg[i]]
    ELSE MapSet(reg, p, Rec(p, TRUE, "undefined", "undefined"))

\* a disconnect case that marks the record and forgets to delete it
OnDisconnectMarked(reg, p) ==
    [i \in 1..Len(reg) |->
        IF reg[i].id = p THEN [reg[i] EXCEPT !.connected = FALSE] ELSE reg[i]]

\* ENetBase.handleEvent, the registry part of the disconnect case
OnDisconnect(reg, p) == IF Has(reg, p) THEN MapDelete(reg, p) ELSE reg

\* ENetBase.handleEvent: the registry after the event
HandleEventPeers(reg, ev) ==
    IF ev.type = "connect" THEN OnConnect(reg, ev.peer)
    ELSE IF ev.type = "disconnect" THEN OnDisconnect(reg, ev.peer)
    ELSE reg

\* a handleEvent that publishes before it updates the registry
HandleEventPubsStale(reg, ev) ==
    IF ev.type \in {"connect", "disconnect", "receive"}
    THEN << [Pub(ev.type, ev.peer, "", reg) EXCEPT !.data = ev.data] >>
    ELSE << Pub("error", NullPeer, "Unknown event type", reg) >>

\* a handleEvent that publishes a Receive event without its payload
HandleEventPubsBare(reg, ev) ==
    IF ev.type \in {"connect", "disconnect", "receive"}
    THEN << Pub(ev.type, ev.peer, "", HandleEventPeers(reg, ev)) >>
    ELSE << Pub("error", NullPeer, "Unknown event type", reg) >>

\* ENetBase.handleEvent: what it publishes, after the registry update
HandleEventPubs(reg, ev) ==
    IF ev.type \in {"connect", "disconnect", "receive"}
    THEN << [Pub(ev.type, ev.peer, "", HandleEventPeers(reg, ev))
             EXCEPT !.data = ev.data] >>
    ELSE << Pub("error", NullPeer, "Unknown event type", reg) >>

\* ENetWrapper::HostService as service() sees it: the event object it returns
NativeEvent(out) == IF out.type = "fatal" THEN NoEvent ELSE out

\* a service() that polls whether or not the session has created a host
ServiceSkipsNever(hc) == FALSE

\* ENetBase.service: the early return
ServiceSkips(hc) == ~hc

\* ENetBase.service: one call on a session with hostCreated = hc, wrapper host
\* h, registry reg and slots tp; out is what enet_host_service reports
ServiceOn(hc, h, reg, tp, out) ==
    IF ServiceSkips(hc)
    THEN [raised |-> FALSE, err |-> "", event |-> NoEvent, peers |-> reg,
          tpeer |-> tp, pubs |-> << >>, calls |-> << >>]
    ELSE IF ~h
    THEN [raised |-> TRUE, err |-> "Host not created", event |-> NoEvent,
          peers |-> reg, tpeer |-> tp, pubs |-> << >>,
          calls |-> << "hostService" >>]
    ELSE IF out.type = "fatal"
    THEN [raised |-> TRUE, err |-> "Error occurred during host service",
          event |-> NoEvent, peers |-> reg, tpeer |-> tp, pubs |-> << >>,
          calls |-> << "hostService" >>]
    ELSE IF out.type = "none"
    THEN [raised |-> FALSE, err |-> "", event |-> NoEvent, peers |-> reg,
          tpeer |-> tp, pubs |-> << >>, calls |-> << "hostService" >>]
    ELSE [raised |-> FALSE, err |-> "", event |-> NativeEvent(out),
          peers |-> HandleEventPeers(reg, out),
          tpeer |-> AfterService(tp, out),
          pubs |-> HandleEventPubs(reg, out),
          calls |-> << "hostService" >>]

Service(out) == ServiceOn(hostCreated, host, peers, tpeer, out)

\* ------------------------------------------- subscribers of connect()
\* the callback connect({timeoutMs}) passes to once(), and the closure once()
\* registers in its place; c is the connect() call they belong to
OnConnected(c) == [fn |-> "onConnected", call |-> c]
Wrapped(c) == [fn |-> "wrapped", call |-> c]

\* Array.prototype.indexOf, 0 for -1
IndexOf(list, f) ==
    IF \E k \in 1..Len(list) : list[k] = f
    THEN CHOOSE k \in 1..Len(list) :
            list[k] = f /\ \A j \in 1..Len(list) : list[j] = f => k <= j
    ELSE 0

\* ENetBase.on
On(list, f) == Append(list, f)

\* ENetBase.off: splice out the first entry that is f itself
Off(list, f) ==
    LET idx == IndexOf(list, f)
    IN  IF idx = 0 THEN list
        ELSE [k \in 1..(Len(list) - 1) |->
                 IF k < idx THEN list[k] ELSE list[k + 1]]

\* ENetBase.once: registers the closure, not the callback
Once(list, f) == On(list, Wrapped(f.call))

\* a connect() call: its timer, the promise it awaits ("pending", "resolved",
\* "rejected") and, for a call without timeout, the activation of listen() it
\* awaits
NoWait == [timer |-> FALSE, inner |-> "none", loop |-> 0]
TimedWait == [timer |-> TRUE, inner |-> "pending", loop |-> 0]
ServeWait(i) == [timer |-> FALSE, inner |-> "pending", loop |-> i]

\* Client.connect: the promise it returns, given how what it awaited ended;
\* the catch publishes the error and returns
ConnectOutcome(awaited) == IF awaited = "rejected" THEN "resolved" ELSE "resolved"

\* one entry of the history of a step: what a connect() call did
Did(c, what, outcome) == [call |-> c, what |-> what, outcome |-> outcome]

\* Client.connect, onConnected(evt) run for call c with this.serverPeer = sp
RunOnConnected(c, st, evPeer, sp) ==
    IF sp # NullPeer /\ evPeer = sp
    THEN [subs |-> Off(st.subs, OnConnected(c)),
          waits |-> [st.waits EXCEPT ![c].timer = FALSE,
                                     ![c].inner = IF @ = "pending"
                                                  THEN "resolved" ELSE @],
          log |-> Append(st.log,
                    IF st.waits[c].inner = "pending"
                    THEN Did(c, "event", ConnectOutcome("resolved"))
                    ELSE Did(c, "late", "none"))]
    ELSE [st EXCEPT !.log = Append(@, Did(c, "ignored", "none"))]

\* a callback the application registered with on('connect', ...): one that
\* returns ("listener") or one that throws ("thrower")
Listener(fn) == [fn |-> fn, call |-> 0]
ListenerFns == {"listener", "thrower"}

\* one subscriber of 'connect' called by emit: the closure of once() removes
\* itself and calls the callback; a callback of the application runs
RunCallback(f, st, evPeer, sp) ==
    IF f.fn = "wrapped"
    THEN RunOnConnected(f.call, [st EXCEPT !.subs = Off(@, f)], evPeer, sp)
    ELSE IF f.fn \in ListenerFns
    THEN [st EXCEPT !.log = Append(@, Did(0, IF f.fn = "thrower" THEN "threw"
                                             ELSE "ran", "none"))]
    ELSE RunOnConnected(f.call, st, evPeer, sp)

\* an emit without the try around the callback: what f throws leaves forEach
CallbackEscapesIfThrown(f) == f.fn = "thrower"

\* ENetBase.emit: the try / catch around each callback keeps what it throws
CallbackEscapes(f) == FALSE

\* ENetBase.emit('connect', evt): Array.prototype.forEach visits the indices
\* below the length the list had at the start, on the list as the callbacks
\* leave it
RECURSIVE ForEachConnect(_, _, _, _, _)
ForEachConnect(k, len, st, evPeer, sp) ==
    IF k > len THEN st
    ELSE IF k > Len(st.subs) THEN ForEachConnect(k + 1, len, st, evPeer, sp)
    ELSE IF CallbackEscapes(st.subs[k])
    THEN RunCallback(st.subs[k], st, evPeer, sp)
    ELSE ForEachConnect(k + 1, len, RunCallback(st.subs[k], st, evPeer, sp),
                        evPeer, sp)

\* the subscribers of connect() after the publications pubs of one step
AfterPubs(pubs, subs, w, sp) ==
    LET st == [subs |-> subs, waits |-> w, log |-> << >>]
    IN  IF \E k \in 1..Len(pubs) : pubs[k].type = "connect"
        THEN LET k == CHOOSE j \in 1..Len(pubs) : pubs[j].type = "connect"
             IN  ForEachConnect(1, Len(subs), st, pubs[k].peer, sp)
        ELSE st

\* a connect() that settles with its activation as soon as it has one
ServeSettlesAtOnce(w, c, ended) == w[c].loop # 0

\* await super.listen() of a connect() without timeout returns when the
\* activation it started has ended
ServeSettles(w, c, ended) == w[c].loop # 0 /\ w[c].loop = ended

RECURSIVE AfterLoopEndFrom(_, _, _)
AfterLoopEndFrom(c, st, ended) ==
    IF c > MaxCalls THEN st
    ELSE IF ServeSettles(st.waits, c, ended)
    THEN AfterLoopEndFrom(c + 1,
            [st EXCEPT !.waits[c] = NoWait,
                       !.log = Append(@, Did(c, "served", ConnectOutcome("resolved")))],
            ended)
    ELSE AfterLoopEndFrom(c + 1, st, ended)

\* the connect() calls after activation ended of listen() has ended (0: none)
AfterLoopEnd(st, ended) == AfterLoopEndFrom(1, st, ended)

\* a call that has returned and has neither timer nor subscriber is forgotten
Reclaim(w, subs) ==
    [c \in Calls |->
        IF /\ ~w[c].timer
           /\ w[c].inner # "pending"
           /\ \A k \in 1..Len(subs) : subs[k].call # c
        THEN NoWait ELSE w[c]]

\* the slot a new connect() call is tracked in
FreeCalls ==
    {c \in Calls : /\ waits[c] = NoWait
                   /\ \A k \in 1..Len(eventCallbacks) : eventCallbacks[k].call # c}
NewCall == CHOOSE c \in FreeCalls : \A d \in FreeCalls : c <= d

\* what a step that published pubs and ended activation ended (0: none) does
\* to the connect() calls
Timed(pubs, ended) ==
    LET a == AfterPubs(pubs, eventCallbacks, waits, serverPeer)
        b == AfterLoopEnd(a, ended)
    IN  /\ eventCallbacks' = b.subs
        /\ waits' = Reclaim(b.waits, b.subs)
        /\ settled' = b.log

\* a step that runs no subscriber and ends no activation
NoTimed ==
    /\ settled' = << >>
    /\ UNCHANGED << eventCallbacks, waits >>

\* a step that is not a broadcast()
NoSends == attempts' = << >> /\ wire' = << >>

\* a step that neither acquires nor releases a slot of the init count
NoEngine ==
    /\ engineOps' = << >>
    /\ UNCHANGED << initCount, engineUp, otherInit, threads >>

\* session.on('connect', callback) called by the application
Subscribe(fn) ==
    /\ ~crashed
    /\ NoEngine
    /\ NoSends
    /\ Len(eventCallbacks) < MaxSubs
    /\ eventCallbacks' = On(eventCallbacks, Listener(fn))
    /\ settled' = << >>
    /\ last' = Op("on", NullPeer, "void", 0)
    /\ emitted' = << >>
    /\ calls' = << >>
    /\ UNCHANGED << builder, config, opts, role, peers, hostCreated, running, serverPeer, host,
                    initialized, tpeer, loops, readyTicks, creating, crashed,
                    waits >>

\* session.off('connect', callback) called by the application
Unsubscribe(fn) ==
    /\ ~crashed
    /\ NoEngine
    /\ NoSends
    /\ eventCallbacks' = Off(eventCallbacks, Listener(fn))
    /\ settled' = << >>
    /\ last' = Op("off", NullPeer, "void", 0)
    /\ emitted' = << >>
    /\ calls' = << >>
    /\ UNCHANGED << builder, config, opts, role, peers, hostCreated, running, serverPeer, host,
                    initialized, tpeer, loops, readyTicks, creating, crashed,
                    waits >>

\* -------------------------------------------------------------- poll loop
Min(a, b) == IF a < b THEN a ELSE b

\* a back-off that doubles without the Math.min
NextIntervalNoCap(cur, poll, max, gotEvent) ==
    IF gotEvent THEN poll ELSE cur * 2

\* a back-off that an event does not reset
NextIntervalNoReset(cur, poll, max, gotEvent) ==
    IF gotEvent THEN cur ELSE Min(cur * 2, max)

\* a back-off that triples the interval
NextIntervalTriples(cur, poll, max, gotEvent) ==
    IF gotEvent THEN poll ELSE Min(cur * 3, max)

\* ENetBase.listen: currentInterval after one service() call
NextInterval(cur, poll, max, gotEvent) ==
    IF gotEvent THEN poll ELSE Min(cur * 2, max)

\* the loop slot a new listen() activation is tracked in
FreeLoops == {i \in Loops : loops[i].pc = "idle"}
NewLoop == CHOOSE i \in FreeLoops : \A j \in FreeLoops : i <= j

\* a while test that does not read this.running
LoopContinuesAlways(isRunning) == TRUE

\* ENetBase.listen: the while test
LoopContinues(isRunning) == isRunning

\* a catch that breaks without publishing
CatchPubsNone(err, reg) == << >>

\* ENetBase.listen: what the catch publishes before it breaks
CatchPubs(err, reg) == << Pub("error", NullPeer, err, reg) >>

\* a subscriber run by this step may call stop(): only if something was published
MayStop(stopInline, pubs) == stopInline /\ pubs # << >>

\* One pass of the while body of ENetBase.listen, entered with the loop record
\* lp and this.running = isRunning (true): service(currentInterval), then the
\* interval update and the setTimeout, or the catch that publishes and breaks.
Iteration(lp, out, stopInline, isRunning, hc, h, reg, tp) ==
    LET r == ServiceOn(hc, h, reg, tp, out)
        got == r.event.type # "none"
        pubs == IF r.raised THEN CatchPubs(r.err, r.peers) ELSE r.pubs
        cur2 == NextInterval(lp.cur, lp.poll, lp.max, got)
    IN  [peers |-> r.peers, tpeer |-> r.tpeer, calls |-> r.calls, pubs |-> pubs,
         running |-> IF MayStop(stopInline, pubs) THEN FALSE ELSE isRunning,
         event |-> r.event, raised |-> r.raised, timeout |-> lp.cur,
         poll |-> lp.poll, max |-> lp.max,
         loop |-> IF r.raised THEN Ended(lp)
                  ELSE [lp EXCEPT !.pc = "sleep", !.cur = cur2]]

\* the loop record of a listen(poll, max) activation before its first pass
FirstLoop(poll, max) ==
    [pc |-> "sleep", poll |-> poll, max |-> max, cur |-> poll]

\* ENetBase.listen up to its first await: running = true, then the first pass
BaseListen(poll, max, out, stopInline, hc, h, reg, tp) ==
    Iteration(FirstLoop(poll, max), out, stopInline, TRUE, hc, h, reg, tp)

\* the history record of a step that ran a pass of loop i
PollOp(name, i, it) ==
    [Op(name, it.event.peer, IF it.raised THEN "raised" ELSE "event", 0)
     EXCEPT !.ev = it.event, !.loop = i, !.raised = it.raised,
            !.timeout = it.timeout, !.poll = it.poll, !.max = it.max]

\* listen() called on a Client: the inherited ENetBase.listen
Listen(poll, max, out, stopInline) ==
    /\ ~crashed
    /\ NoEngine
    /\ NoSends
    /\ role = "client"
    /\ FreeLoops # {}
    /\ LET it == BaseListen(poll, max, out, stopInline, hostCreated, host,
                            peers, tpeer)
       IN  /\ peers' = it.peers
           /\ tpeer' = it.tpeer
           /\ calls' = it.calls
           /\ emitted' = it.pubs
           /\ running' = it.running
           /\ loops' = [loops EXCEPT ![NewLoop] = it.loop]
           /\ last' = PollOp("listen", NewLoop, it)
           /\ Timed(it.pubs, IF it.raised THEN NewLoop ELSE 0)
    /\ UNCHANGED << builder, config, opts, role, hostCreated, serverPeer, host, initialized,
                    readyTicks, creating, crashed >>

\* Server.listen on a created host: the nextTick for 'ready', then the base loop
ServerListen(poll, max, out, stopInline) ==
    /\ ~crashed
    /\ NoEngine
    /\ NoSends
    /\ role = "server"
    /\ hostCreated
    /\ ~creating.active
    /\ FreeLoops # {}
    /\ readyTicks < MaxTicks
    /\ readyTicks' = readyTicks + 1
    /\ LET it == BaseListen(poll, max, out, stopInline, hostCreated, host,
                            peers, tpeer)
       IN  /\ peers' = it.peers
           /\ tpeer' = it.tpeer
           /\ calls' = it.calls
           /\ emitted' = it.pubs
           /\ running' = it.running
           /\ loops' = [loops EXCEPT ![NewLoop] = it.loop]
           /\ last' = PollOp("listen", NewLoop, it)
           /\ Timed(it.pubs, IF it.raised THEN NewLoop ELSE 0)
    /\ UNCHANGED << builder, config, opts, role, hostCreated, serverPeer, host, initialized,
                    creating, crashed >>

\* the setTimeout of loop i fires: the while test, then the next pass
Wake(i, out, stopInline) ==
    /\ ~crashed
    /\ NoEngine
    /\ NoSends
    /\ loops[i].pc = "sleep"
    /\ readyTicks = 0
    /\ IF ~LoopContinues(running)
       THEN /\ loops' = [loops EXCEPT ![i] = Ended(loops[i])]
            /\ last' = [Op("exit", NullPeer, "void", 0) EXCEPT !.loop = i]
            /\ emitted' = << >>
            /\ calls' = << >>
            /\ Timed(<< >>, i)
            /\ UNCHANGED << peers, tpeer, running >>
       ELSE LET it == Iteration(loops[i], out, stopInline, running,
                                hostCreated, host, peers, tpeer)
            IN  /\ peers' = it.peers
                /\ tpeer' = it.tpeer
                /\ calls' = it.calls
                /\ emitted' = it.pubs
                /\ running' = it.running
                /\ loops' = [loops EXCEPT ![i] = it.loop]
                /\ last' = PollOp("poll", i, it)
                /\ Timed(it.pubs, IF it.raised THEN i ELSE 0)
    /\ UNCHANGED << builder, config, opts, role, hostCreated, serverPeer, host, initialized,
                    readyTicks, creating, crashed >>

\* ENetBase.stop
Stop ==
    /\ ~crashed
    /\ NoTimed
    /\ NoEngine
    /\ NoSends
    /\ running' = FALSE
    /\ last' = Op("stop", NullPeer, "void", 0)
    /\ emitted' = << >>
    /\ calls' = << >>
    /\ UNCHANGED << builder, config, opts, role, peers, hostCreated, serverPeer, host, initialized,
                    tpeer, loops, readyTicks, creating, crashed >>

\* the process.nextTick callback of Server.listen
ReadyTick ==
    /\ ~crashed
    /\ NoTimed
    /\ NoEngine
    /\ NoSends
    /\ readyTicks > 0
    /\ readyTicks' = readyTicks - 1
    /\ last' = Op("readyTick", NullPeer, "void", 0)
    /\ emitted' = << Pub("ready", NullPeer, "", peers) >>
    /\ calls' = << >>
    /\ UNCHANGED << builder, config, opts, role, peers, hostCreated, running, serverPeer, host,
                    initialized, tpeer, loops, creating, crashed >>

\* service(timeout) called by the application outside a poll loop
ServiceCall(out) ==
    /\ ~crashed
    /\ NoEngine
    /\ NoSends
    /\ LET r == Service(out)
       IN  /\ peers' = r.peers
           /\ tpeer' = r.tpeer
           /\ calls' = r.calls
           /\ emitted' = r.pubs
           /\ Timed(r.pubs, 0)
           /\ last' = [Op("service", r.event.peer,
                          IF r.raised THEN "raised" ELSE "event", 0)
                       EXCEPT !.ev = r.event, !.raised = r.raised]
    /\ UNCHANGED << builder, config, opts, role, hostCreated, running, serverPeer, host, initialized,
                    loops, readyTicks, creating, crashed >>

\* ------------------------------------------------------- send, disconnect
\* A handle is dangling when the wrapper holds no host: the ENetPeer it points
\* to was freed with the host, and the addon dereferences it unchecked.
Dangling(p) == p # NullPeer /\ ~host

\* ENetWrapper::SendPacket / SendRawPacket: thrown message, or "" and a status.
\* st is also what the dereference of a dangling handle happens to return.
NativeSend(p, dataOk, st) ==
    IF p = NullPeer THEN [threw |-> TRUE, err |-> "Invalid peer id", status |-> 0]
    ELSE IF ~dataOk THEN [threw |-> TRUE, err |-> "Data must be a Buffer",
                          status |-> 0]
    ELSE IF ~host THEN [threw |-> FALSE, err |-> "", status |-> st]
    ELSE [threw |-> FALSE, err |-> "", status |-> PeerSendStatus(tpeer, p, st)]

\* ENetBase.send / ENetBase.sendRawPacket: the status they return
SendStatus(p, dataOk, st) ==
    LET n == NativeSend(p, dataOk, st) IN IF n.threw THEN -1 ELSE n.status

\* ENetBase.send / ENetBase.sendRawPacket: what they publish
SendPubs(p, dataOk, st) ==
    LET n == NativeSend(p, dataOk, st)
    IN  IF n.threw THEN << Pub("error", NullPeer, n.err, peers) >> ELSE << >>

SendOps == {"send", "sendRawPacket"}
NativeSendName(name) == IF name = "send" THEN "sendPacket" ELSE "sendRawPacket"

\* the packet flags the wrapper exports
FlagBits == {PACKET_FLAG_RELIABLE, PACKET_FLAG_UNSEQUENCED,
             PACKET_FLAG_NO_ALLOCATE, PACKET_FLAG_UNRELIABLE_FRAGMENT,
             PACKET_FLAG_SENT}

\* every combination of them
FlagMasks ==
    {r + u + n + f + s : r \in {0, PACKET_FLAG_RELIABLE},
                         u \in {0, PACKET_FLAG_UNSEQUENCED},
                         n \in {0, PACKET_FLAG_NO_ALLOCATE},
                         f \in {0, PACKET_FLAG_UNRELIABLE_FRAGMENT},
                         s \in {0, PACKET_FLAG_SENT}}

\* whether bit b (a power of two) is set in the mask f
HasBit(f, b) == (f \div b) % 2 = 1

\* the 4th argument of the addon's send method: send(..., reliable) makes it
\* from a boolean, sendRawPacket(..., flags) passes the caller's mask
JsFlags(name, arg) ==
    IF name = "send" THEN (IF arg THEN PACKET_FLAG_RELIABLE ELSE 0) ELSE arg

\* what the application may pass as that argument, and what it is by default
SendArgs(name) == IF name = "send" THEN BOOLEAN ELSE FlagMasks
DefaultArg(name) == IF name = "send" THEN TRUE ELSE PACKET_FLAG_RELIABLE

\* an addon that creates the packet with the flags as they came
ClearNothing(f) == f

\* ENetWrapper::SendPacket / SendRawPacket: flags &= ~ENET_PACKET_FLAG_NO_ALLOCATE
ClearNoAllocate(f) ==
    IF HasBit(f, PACKET_FLAG_NO_ALLOCATE) THEN f - PACKET_FLAG_NO_ALLOCATE ELSE f

\* a hand-over that puts the newest packet in front of the ones before it
HandOverInFront(q, pkt) == << pkt >> \o q

\* enet_peer_send is called inside the call of send(), so the packets reach
\* it one after the other in the order of the calls
HandOver(q, pkt) == Append(q, pkt)

\* the effect of ENetBase.send / sendRawPacket on everything but last; arg is
\* the reliable argument of send or the flags argument of sendRawPacket
BaseSend(name, p, arg, dataOk, st) ==
    /\ emitted' = SendPubs(p, dataOk, st)
    /\ calls' = << NativeSendName(name) >>
    /\ attempts' = << >>
    /\ Len(wire) < MaxSends
    /\ LET n == NativeSend(p, dataOk, st)
       IN  wire' = IF n.threw \/ ~host THEN wire
                   ELSE HandOver(wire,
                           [id |-> Len(wire) + 1, peer |-> p,
                            given |-> JsFlags(name, arg),
                            flags |-> ClearNoAllocate(JsFlags(name, arg)),
                            status |-> n.status])
    /\ UNCHANGED << peers, tpeer >>

\* undefined behaviour taken as the end of the process: no session is left
Crash ==
    /\ crashed' = TRUE
    /\ peers' = << >>
    /\ hostCreated' = FALSE
    /\ running' = FALSE
    /\ serverPeer' = NullPeer
    /\ host' = FALSE
    /\ initialized' = FALSE
    /\ tpeer' = FreeSlots
    /\ loops' = [i \in Loops |-> IdleLoop]
    /\ readyTicks' = 0
    /\ creating' = NoCreate
    /\ eventCallbacks' = << >>
    /\ waits' = [c \in Calls |-> NoWait]
    /\ settled' = << >>
    /\ initCount' = 0
    /\ engineUp' = FALSE
    /\ otherInit' = [o \in Others |-> FALSE]
    /\ threads' = [o \in Others |-> "idle"]
    /\ engineOps' = << >>
    /\ attempts' = << >>
    /\ wire' = << >>
    /\ last' = Op("crash", NullPeer, "void", 0)
    /\ emitted' = << >>
    /\ calls' = << >>
    /\ UNCHANGED << builder, role, config, opts >>

\* server.send(peerId, ...) / server.sendRawPacket(peerId, ...)
Send(name, p, arg, dataOk, st, crash) ==
    /\ ~crashed
    /\ role = "server"
    /\ crash => (Dangling(p) /\ dataOk)
    /\ IF crash
       THEN Crash
       ELSE /\ BaseSend(name, p, arg, dataOk, st)
            /\ NoTimed
            /\ NoEngine
            /\ last' = [Op(name, p, "status", SendStatus(p, dataOk, st))
                        EXCEPT !.wasReg = Has(peers, p)]
            /\ UNCHANGED << builder, config, opts, role, hostCreated, running, serverPeer, host,
                            initialized, loops, readyTicks, creating, crashed >>

\* Client.send(...) / Client.sendRawPacket(...): the target defaults to serverPeer
ClientSend(name, arg, dataOk, st, crash) ==
    /\ ~crashed
    /\ role = "client"
    /\ crash => (Dangling(serverPeer) /\ dataOk)
    /\ IF crash
       THEN Crash
       ELSE /\ IF serverPeer # NullPeer
               THEN /\ BaseSend(name, serverPeer, arg, dataOk, st)
                    /\ last' = [Op(name, serverPeer, "status",
                                   SendStatus(serverPeer, dataOk, st))
                                EXCEPT !.wasReg = Has(peers, serverPeer),
                                       !.spWas = serverPeer]
               ELSE /\ emitted' = << Pub("error", NullPeer,
                                         "Not connected to server", peers) >>
                    /\ calls' = << >>
                    /\ last' = Op(name, NullPeer, "status", -1)
                    /\ attempts' = << >>
                    /\ UNCHANGED << peers, tpeer, wire >>
            /\ NoTimed
            /\ NoEngine
            /\ UNCHANGED << builder, config, opts, role, hostCreated, running, serverPeer, host,
                            initialized, loops, readyTicks, creating, crashed >>

\* a loop over the registry that a failed send ends
BroadcastStopsOnFailure(status) == status >= 0

\* Server.broadcast: the for-of goes on whatever send() returned
BroadcastContinues(status) == TRUE

\* Server.broadcast from the k-th entry of the registry on: the sends it
\* attempts and what they publish; sts[p] is the engine's answer for peer p
RECURSIVE BroadcastFrom(_, _, _)
BroadcastFrom(k, dataOk, sts) ==
    IF k > Len(peers) THEN [attempts |-> << >>, pubs |-> << >>]
    ELSE IF ~peers[k].connected THEN BroadcastFrom(k + 1, dataOk, sts)
    ELSE LET p == peers[k].id
             st == SendStatus(p, dataOk, sts[p])
             rest == IF BroadcastContinues(st)
                     THEN BroadcastFrom(k + 1, dataOk, sts)
                     ELSE [attempts |-> << >>, pubs |-> << >>]
         IN  [attempts |-> << [peer |-> p, status |-> st] >> \o rest.attempts,
              pubs |-> SendPubs(p, dataOk, sts[p]) \o rest.pubs]

\* the connected records of the registry
Connected(reg) == SelectSeq(reg, LAMBDA r : r.connected)

\* Server.broadcast(channelId, data)
Broadcast(dataOk, sts, crash) ==
    /\ ~crashed
    /\ role = "server"
    /\ crash => (~host /\ dataOk /\ Connected(peers) # << >>)
    /\ IF crash
       THEN Crash
       ELSE LET b == BroadcastFrom(1, dataOk, sts)
            IN  /\ attempts' = b.attempts
                /\ wire' = << >>
                /\ emitted' = b.pubs
                /\ calls' = [k \in 1..Len(b.attempts) |-> "sendPacket"]
                /\ last' = Op("broadcast", NullPeer, "void", 0)
                /\ NoTimed
                /\ UNCHANGED << builder, config, opts, role, peers, hostCreated, running, serverPeer,
                                host, initialized, tpeer, loops, readyTicks,
                                creating, crashed, initCount, engineUp,
                                otherInit, threads >>
                /\ engineOps' = << >>

DisconnectOps == {"disconnect", "disconnectNow", "disconnectLater"}

\* ENetWrapper::Disconnect / DisconnectNow / DisconnectLater: does it throw
NativeDisconnectThrows(p) == p = NullPeer

\* a disconnect that leaves the record to the Disconnect event
DisconnectPeersLazy(reg, p) == reg

\* ENetBase.disconnect / disconnectNow / disconnectLater: the registry after
DisconnectPeers(reg, p) ==
    IF NativeDisconnectThrows(p) THEN reg ELSE MapDelete(reg, p)

\* the effect of ENetBase.disconnect* on everything but last
BaseDisconnect(name, p) ==
    /\ calls' = << name >>
    /\ peers' = DisconnectPeers(peers, p)
    /\ emitted' = IF NativeDisconnectThrows(p)
                  THEN << Pub("error", NullPeer, "Invalid peer id", peers) >>
                  ELSE << >>
    /\ tpeer' = IF NativeDisconnectThrows(p) \/ ~host THEN tpeer
                ELSE AfterDisconnect(tpeer, name, p)

\* server.disconnect(peerId) / disconnectNow(peerId) / disconnectLater(peerId)
Disconnect(name, p, crash) ==
    /\ ~crashed
    /\ role = "server"
    /\ crash => Dangling(p)
    /\ IF crash
       THEN Crash
       ELSE /\ BaseDisconnect(name, p)
            /\ NoTimed
            /\ NoEngine
            /\ NoSends
            /\ last' = [Op(name, p, "void", 0) EXCEPT !.wasReg = Has(peers, p)]
            /\ UNCHANGED << builder, config, opts, role, hostCreated, running, serverPeer, host,
                            initialized, loops, readyTicks, creating, crashed >>

\* Client.disconnect() / disconnectNow() / disconnectLater()
ClientDisconnect(name, crash) ==
    /\ ~crashed
    /\ role = "client"
    /\ crash => Dangling(serverPeer)
    /\ IF crash
       THEN Crash
       ELSE IF serverPeer # NullPeer
       THEN /\ BaseDisconnect(name, serverPeer)
            /\ serverPeer' = NullPeer
            /\ NoTimed
            /\ NoEngine
            /\ NoSends
            /\ last' = [Op(name, serverPeer, "void", 0)
                        EXCEPT !.wasReg = Has(peers, serverPeer),
                               !.spWas = serverPeer]
            /\ UNCHANGED << builder, config, opts, role, hostCreated, running, host, initialized,
                            loops, readyTicks, creating, crashed >>
       ELSE /\ last' = Op(name, NullPeer, "void", 0)
            /\ emitted' = << >>
            /\ calls' = << >>
            /\ NoTimed
            /\ NoEngine
            /\ NoSends
            /\ UNCHANGED << builder, config, opts, role, peers, hostCreated, running, serverPeer, host,
                            initialized, tpeer, loops, readyTicks, creating,
                            crashed >>

\* ------------------------------------------------------- host life cycle
\* ENetWrapper::CreateHost: the message it throws, "" when it returns true;
\* ok is whether enet_host_create succeeds
CreateHostThrows(ok) ==
    IF ~initialized THEN "ENet not initialized"
    ELSE IF ~ok THEN "Failed to create ENet host"
    ELSE ""

\* a CreateHost that keeps a host when enet_host_create fails
HostAfterCreateKept(ok) == TRUE

\* ENetWrapper::host after CreateHost
HostAfterCreate(ok) == IF ~initialized THEN host ELSE ok

\* the slots after CreateHost: an existing host is destroyed first
SlotsAfterCreate(ok) == IF ~initialized THEN tpeer ELSE FreeSlots

\* ENetBase.setupHost: the addon methods it invokes
SetupHostCalls ==
    << "setCompression", "setChecksum" >>
       \o (IF config.newPacket THEN << "setNewPacket" >> ELSE << >>)

\* ENetBase.setupHost: the toggles of the host after it.  The CommonJS build
\* passes !!config.compression and !!config.checksum, the ES module build
\* passes true; setNewPacket(true, isServer) is called only for a true flag,
\* on a host that enet_host_create made with the mode off.
SetupHost(cfg) ==
    [compression |-> IF cfg.esm THEN TRUE ELSE cfg.compression,
     checksum |-> IF cfg.esm THEN TRUE ELSE cfg.checksum,
     newPacket |-> cfg.newPacket]

\* enet_host_connect: the first free slot of the host, NullPeer when none is free
ConnectSlot(tp) ==
    IF \E p \in HostPeers : tp[p] = "free"
    THEN CHOOSE p \in HostPeers :
            tp[p] = "free" /\ \A q \in HostPeers : tp[q] = "free" => p <= q
    ELSE NullPeer

\* a connect() that stores its record as already connected
ConnectPeersConnected(reg, p) ==
    MapSet(reg, p, Rec(p, TRUE, "config.ip", "config.port"))

\* Client.connect, the registry after a successful native connect
ConnectPeers(reg, p) == MapSet(reg, p, Rec(p, FALSE, "config.ip", "config.port"))

\* Client.connect({timeoutMs}) up to its first await.  timed: timeoutMs > 0;
\* held: the application keeps the promise of a call without timeout;
\* createOk / connectOk: whether enet_host_create / enet_host_connect succeed.
ClientConnect(timed, held, createOk, connectOk, out, stopInline) ==
    /\ ~crashed
    /\ NoEngine
    /\ NoSends
    /\ role = "client"
    /\ FreeLoops # {}
    /\ timed => ~held
    /\ (timed \/ held) => FreeCalls # {}
    /\ LET needCreate == ~hostCreated
           createErr == IF needCreate THEN CreateHostThrows(createOk) ELSE ""
           h2 == IF needCreate THEN HostAfterCreate(createOk) ELSE host
           tp2 == IF needCreate THEN SlotsAfterCreate(createOk) ELSE tpeer
           hc2 == IF needCreate /\ createErr = "" THEN TRUE ELSE hostCreated
           createCalls == IF ~needCreate THEN << >>
                          ELSE IF createErr # "" THEN << "createHost" >>
                          ELSE << "createHost" >> \o SetupHostCalls
           slot == ConnectSlot(tp2)
           connectErr == IF ~h2 THEN "Host not created"
                         ELSE IF ~connectOk \/ slot = NullPeer THEN "Failed to connect"
                         ELSE ""
       IN  IF createErr # ""
           THEN \* createClient publishes and rethrows, connect publishes again
                /\ emitted' = << Pub("error", NullPeer, createErr, peers),
                                 Pub("error", NullPeer, createErr, peers) >>
                /\ calls' = createCalls
                /\ host' = h2
                /\ tpeer' = tp2
                /\ last' = [Op("connect", NullPeer, "void", 0)
                            EXCEPT !.spWas = serverPeer]
                /\ settled' = << Did(0, "failed", ConnectOutcome("rejected")) >>
                /\ UNCHANGED << peers, hostCreated, running, serverPeer, loops,
                                eventCallbacks, waits >>
           ELSE IF connectErr # ""
           THEN /\ emitted' = << Pub("error", NullPeer, connectErr, peers) >>
                /\ calls' = createCalls \o << "connect" >>
                /\ host' = h2
                /\ tpeer' = tp2
                /\ hostCreated' = hc2
                /\ last' = [Op("connect", NullPeer, "void", 0)
                            EXCEPT !.spWas = serverPeer]
                /\ settled' = << Did(0, "failed", ConnectOutcome("rejected")) >>
                /\ UNCHANGED << peers, running, serverPeer, loops,
                                eventCallbacks, waits >>
           ELSE LET reg3 == ConnectPeers(peers, slot)
                    tp3 == [tp2 EXCEPT ![slot] = "connecting"]
                    it == BaseListen(DefaultPoll, DefaultMaxPoll, out, stopInline,
                                     hc2, h2, reg3, tp3)
                    starts == ~timed \/ ~running
                    \* the first pass runs before once() registers
                    a == IF starts
                         THEN AfterPubs(it.pubs, eventCallbacks, waits, slot)
                         ELSE [subs |-> eventCallbacks, waits |-> waits,
                               log |-> << >>]
                    subs2 == IF timed THEN Once(a.subs, OnConnected(NewCall))
                             ELSE a.subs
                    w2 == IF timed THEN [a.waits EXCEPT ![NewCall] = TimedWait]
                          ELSE IF held /\ ~it.raised
                          THEN [a.waits EXCEPT ![NewCall] = ServeWait(NewLoop)]
                          ELSE a.waits
                IN  /\ eventCallbacks' = subs2
                    /\ waits' = Reclaim(w2, subs2)
                    /\ settled' = IF ~timed /\ it.raised
                                  THEN Append(a.log, Did(0, "served",
                                                  ConnectOutcome("resolved")))
                                  ELSE a.log
                    /\ host' = h2
                    /\ hostCreated' = hc2
                    /\ serverPeer' = slot
                    /\ peers' = IF starts THEN it.peers ELSE reg3
                    /\ tpeer' = IF starts THEN it.tpeer ELSE tp3
                    /\ running' = IF starts THEN it.running ELSE running
                    /\ loops' = IF starts THEN [loops EXCEPT ![NewLoop] = it.loop]
                                ELSE loops
                    /\ emitted' = IF starts THEN it.pubs ELSE << >>
                    /\ calls' = createCalls \o << "connect" >>
                                \o (IF starts THEN it.calls ELSE << >>)
                    /\ last' = [Op("connect", slot, "void", 0)
                                EXCEPT !.spWas = serverPeer,
                                       !.wasReg = Has(peers, slot),
                                       !.ev = IF starts THEN it.event ELSE NoEvent,
                                       !.raised = starts /\ it.raised,
                                       !.timeout = IF starts THEN it.timeout ELSE 0,
                                       !.poll = IF starts THEN it.poll ELSE 0,
                                       !.max = IF starts THEN it.max ELSE 0,
                                       !.loop = IF starts THEN NewLoop ELSE 0]
    /\ opts' = IF ~hostCreated /\ CreateHostThrows(createOk) = ""
               THEN SetupHost(config) ELSE opts
    /\ UNCHANGED << builder, role, config, initialized, readyTicks, creating, crashed >>

\* Client.connect({timeoutMs}): the setTimeout callback of call c fires
ConnectTimer(c) ==
    /\ ~crashed
    /\ NoEngine
    /\ NoSends
    /\ role = "client"
    /\ waits[c].timer
    /\ LET subs2 == Off(eventCallbacks, OnConnected(c))
           w2 == [waits EXCEPT ![c] = [timer |-> FALSE, inner |-> "rejected",
                                       loop |-> 0]]
       IN  /\ eventCallbacks' = subs2
           /\ waits' = Reclaim(w2, subs2)
    /\ settled' = << Did(c, "timer", ConnectOutcome("rejected")) >>
    /\ emitted' = << Pub("error", NullPeer, "Connect timeout", peers) >>
    /\ calls' = << >>
    /\ last' = [Op("connectTimer", NullPeer, "void", 0) EXCEPT !.loop = c]
    /\ UNCHANGED << builder, config, opts, role, peers, hostCreated, running, serverPeer, host,
                    initialized, tpeer, loops, readyTicks, creating, crashed >>

\* a createServer that does not look at the result of the port probe
CreateServerErrNoProbe(avail, createOk) == CreateHostThrows(createOk)

\* Server.createServer: the error it throws after the port probe, "" for none
CreateServerErr(avail, createOk) ==
    IF ~avail THEN "Port is already in use" ELSE CreateHostThrows(createOk)

\* Server.createServer (also reached from Server.listen on a session without a
\* host): up to the await of the port probe
CreateServerCall(thenListen) ==
    /\ ~crashed
    /\ NoTimed
    /\ NoEngine
    /\ NoSends
    /\ role = "server"
    /\ ~creating.active
    /\ thenListen => ~hostCreated
    /\ creating' = [active |-> TRUE, thenListen |-> thenListen]
    /\ last' = Op(IF thenListen THEN "listen" ELSE "createServer", NullPeer,
                  "pending", 0)
    /\ emitted' = << >>
    /\ calls' = << >>
    /\ UNCHANGED << builder, config, opts, role, peers, hostCreated, running, serverPeer, host,
                    initialized, tpeer, loops, readyTicks, crashed >>

\* Server.createServer after the port probe answered avail, and the rest of
\* Server.listen(poll, max) when listen() was what called it
CreateServerDone(avail, createOk, poll, max, out, stopInline) ==
    /\ ~crashed
    /\ creating.active
    /\ creating.thenListen => (FreeLoops # {} /\ readyTicks < MaxTicks)
    /\ creating' = NoCreate
    /\ NoEngine
    /\ NoSends
    /\ LET err == CreateServerErr(avail, createOk)
           inUse == err = "Port is already in use"
       IN  IF err # ""
           THEN /\ emitted' = IF inUse
                              THEN << Pub("error", NullPeer, err, peers),
                                      Pub("error", NullPeer, err, peers) >>
                              ELSE << Pub("error", NullPeer, err, peers) >>
                /\ calls' = IF inUse THEN << >> ELSE << "createHost" >>
                /\ host' = IF inUse THEN host ELSE HostAfterCreate(createOk)
                /\ tpeer' = IF inUse THEN tpeer ELSE SlotsAfterCreate(createOk)
                /\ last' = [Op("createServer", NullPeer, "raised", 0)
                            EXCEPT !.raised = TRUE]
                /\ NoTimed
                /\ UNCHANGED << peers, hostCreated, running, loops, readyTicks >>
           ELSE IF ~creating.thenListen
           THEN /\ host' = TRUE
                /\ tpeer' = FreeSlots
                /\ hostCreated' = TRUE
                /\ emitted' = << >>
                /\ calls' = << "createHost" >> \o SetupHostCalls
                /\ last' = Op("createServer", NullPeer, "void", 0)
                /\ NoTimed
                /\ UNCHANGED << peers, running, loops, readyTicks >>
           ELSE LET it == BaseListen(poll, max, out, stopInline,
                                     TRUE, TRUE, peers, FreeSlots)
                IN  /\ host' = TRUE
                    /\ hostCreated' = TRUE
                    /\ readyTicks' = readyTicks + 1
                    /\ peers' = it.peers
                    /\ tpeer' = it.tpeer
                    /\ running' = it.running
                    /\ loops' = [loops EXCEPT ![NewLoop] = it.loop]
                    /\ emitted' = it.pubs
                    /\ calls' = << "createHost" >> \o SetupHostCalls \o it.calls
                    /\ last' = PollOp("listen", NewLoop, it)
                    /\ Timed(it.pubs, IF it.raised THEN NewLoop ELSE 0)
    /\ opts' = IF CreateServerErr(avail, createOk) = ""
               THEN SetupHost(config) ELSE opts
    /\ UNCHANGED << builder, role, config, serverPeer, initialized, crashed >>

\* a destroy() that leaves the registry alone
DestroyPeersKept(reg) == reg

\* ENetBase.destroy: this.peers.clear()
DestroyPeers(reg) == << >>

\* ENetBase.destroy
Destroy ==
    /\ ~crashed
    /\ NoTimed
    /\ NoEngine
    /\ NoSends
    /\ host' = FALSE
    /\ tpeer' = FreeSlots
    /\ peers' = DestroyPeers(peers)
    /\ hostCreated' = FALSE
    /\ last' = Op("destroy", NullPeer, "void", 0)
    /\ emitted' = << >>
    /\ calls' = << "destroyHost" >>
    /\ UNCHANGED << builder, config, opts, role, running, serverPeer, initialized, loops, readyTicks,
                    creating, crashed >>

\* ENetWrapper::Initialize of a wrapper whose initialized flag is flag, with
\* g_enetInitCount = cnt; ok is whether enet_initialize succeeds when it runs.
\* ops lists the fetch_add ("acquire"), fetch_sub ("release") and engine calls.
EngineAcquire(flag, cnt, up, ok) ==
    IF flag
    THEN [flag |-> TRUE, count |-> cnt, up |-> up, ops |-> << >>, threw |-> FALSE]
    ELSE IF cnt = 0
    THEN IF ok
         THEN [flag |-> TRUE, count |-> cnt + 1, up |-> TRUE,
               ops |-> << "acquire", "init" >>, threw |-> FALSE]
         ELSE [flag |-> FALSE, count |-> cnt, up |-> up,
               ops |-> << "acquire", "initFailed", "release" >>, threw |-> TRUE]
    ELSE [flag |-> TRUE, count |-> cnt + 1, up |-> up, ops |-> << "acquire" >>,
          threw |-> FALSE]

\* a release that gives a slot back whether or not the wrapper holds one
EngineReleaseUnguarded(flag, cnt, up) ==
    IF cnt = 1
    THEN [flag |-> FALSE, count |-> cnt - 1, up |-> FALSE,
          ops |-> << "release", "teardown" >>]
    ELSE [flag |-> FALSE, count |-> cnt - 1, up |-> up, ops |-> << "release" >>]

\* a release that tears the engine down whenever a wrapper lets go
EngineReleaseEager(flag, cnt, up) ==
    IF ~flag
    THEN [flag |-> FALSE, count |-> cnt, up |-> up, ops |-> << >>]
    ELSE [flag |-> FALSE, count |-> cnt - 1, up |-> FALSE,
          ops |-> << "release", "teardown" >>]

\* ENetWrapper::Deinitialize and ENetWrapper::~ENetWrapper, the init count part
EngineRelease(flag, cnt, up) ==
    IF ~flag
    THEN [flag |-> FALSE, count |-> cnt, up |-> up, ops |-> << >>]
    ELSE IF cnt = 1
    THEN [flag |-> FALSE, count |-> cnt - 1, up |-> FALSE,
          ops |-> << "release", "teardown" >>]
    ELSE [flag |-> FALSE, count |-> cnt - 1, up |-> up, ops |-> << "release" >>]

\* ENetBase.deinitialize
Deinitialize ==
    /\ ~crashed
    /\ NoTimed
    /\ NoSends
    /\ host' = FALSE
    /\ tpeer' = FreeSlots
    /\ LET e == EngineRelease(initialized, initCount, engineUp)
       IN  /\ initialized' = e.flag
           /\ initCount' = e.count
           /\ engineUp' = e.up
           /\ engineOps' = e.ops
    /\ last' = Op("deinitialize", NullPeer, "void", 0)
    /\ emitted' = << >>
    /\ calls' = << "deinitialize" >>
    /\ UNCHANGED << builder, config, opts, role, peers, hostCreated, running, serverPeer, loops,
                    readyTicks, creating, crashed, otherInit, threads >>

\* ENetBase.initialize; ok is whether enet_initialize succeeds when it is run
Initialize(ok) ==
    /\ ~crashed
    /\ NoTimed
    /\ NoSends
    /\ LET e == EngineAcquire(initialized, initCount, engineUp, ok)
       IN  /\ initialized' = e.flag
           /\ initCount' = e.count
           /\ engineUp' = e.up
           /\ engineOps' = e.ops
           /\ last' = [Op("initialize", NullPeer,
                          IF e.threw THEN "raised" ELSE "true", 0)
                       EXCEPT !.raised = e.threw]
    /\ emitted' = << >>
    /\ calls' = << "initialize" >>
    /\ UNCHANGED << builder, config, opts, role, peers, hostCreated, running, serverPeer, host, tpeer,
                    loops, readyTicks, creating, crashed, otherInit,
                    threads >>

\* initialize() of another session of the process
OtherInitialize(o, ok) ==
    /\ ~crashed
    /\ NoTimed
    /\ NoSends
    /\ LET e == EngineAcquire(otherInit[o], initCount, engineUp, ok)
       IN  /\ otherInit' = [otherInit EXCEPT ![o] = e.flag]
           /\ initCount' = e.count
           /\ engineUp' = e.up
           /\ engineOps' = e.ops
           /\ last' = [Op("otherInitialize", NullPeer,
                          IF e.threw THEN "raised" ELSE "true", 0)
                       EXCEPT !.raised = e.threw, !.loop = o]
    /\ emitted' = << >>
    /\ calls' = << >>
    /\ UNCHANGED << builder, config, opts, role, peers, hostCreated, running, serverPeer, host,
                    initialized, tpeer, loops, readyTicks, creating, crashed,
                    threads >>

\* deinitialize() of another session of the process, or its wrapper's destructor
OtherDeinitialize(o) ==
    /\ ~crashed
    /\ NoTimed
    /\ NoSends
    /\ LET e == EngineRelease(otherInit[o], initCount, engineUp)
       IN  /\ otherInit' = [otherInit EXCEPT ![o] = e.flag]
           /\ initCount' = e.count
           /\ engineUp' = e.up
           /\ engineOps' = e.ops
    /\ last' = [Op("otherDeinitialize", NullPeer, "void", 0) EXCEPT !.loop = o]
    /\ emitted' = << >>
    /\ calls' = << >>
    /\ UNCHANGED << builder, config, opts, role, peers, hostCreated, running, serverPeer, host,
                    initialized, tpeer, loops, readyTicks, creating, crashed,
                    threads >>

\* One instruction of the thread of wrapper o inside ENetWrapper::Initialize or
\* ENetWrapper::Deinitialize: what it does to the count, the engine, the
\* wrapper's flag and the thread's position.
ThreadStep(o, op, cnt, up, flag, pc) ==
    /\ ~crashed
    /\ NoTimed
    /\ NoSends
    /\ initCount' = cnt
    /\ engineUp' = up
    /\ otherInit' = [otherInit EXCEPT ![o] = flag]
    /\ threads' = [threads EXCEPT ![o] = pc]
    /\ engineOps' = << op >>
    /\ last' = [Op("thread", NullPeer, "void", 0) EXCEPT !.loop = o]
    /\ emitted' = << >>
    /\ calls' = << >>
    /\ UNCHANGED << builder, config, opts, role, peers, hostCreated, running, serverPeer, host,
                    initialized, tpeer, loops, readyTicks, creating, crashed >>

\* Initialize: if (initialized) return; g_enetInitCount.fetch_add(1) == 0
ThreadAcquire(o) ==
    /\ threads[o] = "idle"
    /\ ~otherInit[o]
    /\ initCount < MaxOthers + 1
    /\ ThreadStep(o, "acquire", initCount + 1, engineUp, FALSE,
                  IF initCount = 0 THEN "init" ELSE "set")

\* Initialize: enet_initialize() != 0
ThreadEngineInit(o, ok) ==
    /\ threads[o] = "init"
    /\ IF ok
       THEN ThreadStep(o, "init", initCount, TRUE, FALSE, "set")
       ELSE ThreadStep(o, "initFailed", initCount, engineUp, FALSE, "undo")

\* Initialize: g_enetInitCount.fetch_sub(1) and the throw after a failure
ThreadUndo(o) ==
    /\ threads[o] = "undo"
    /\ ThreadStep(o, "release", initCount - 1, engineUp, FALSE, "idle")

\* Initialize: initialized = true
ThreadSet(o) ==
    /\ threads[o] = "set"
    /\ ThreadStep(o, "set", initCount, engineUp, TRUE, "idle")

\* Deinitialize: initialized = false; g_enetInitCount.fetch_sub(1) == 1
ThreadRelease(o) ==
    /\ threads[o] = "idle"
    /\ otherInit[o]
    /\ ThreadStep(o, "release", initCount - 1, engineUp, FALSE,
                  IF initCount = 1 THEN "teardown" ELSE "idle")

\* Deinitialize: enet_deinitialize()
ThreadTeardown(o) ==
    /\ threads[o] = "teardown"
    /\ ThreadStep(o, "teardown", initCount, FALSE, FALSE, "idle")

\* ---------------------------------------------------------- specification
\* the session as its constructor leaves it: new Server(options) has run
\* initialize(); new Client(options) has run initialize() and createClient()
InitRest ==
    /\ role \in {"server", "client"}
    /\ builder = [buf |-> [k \in 1..MaxSize |-> 0], offset |-> 0,
                  written |-> << >>]
    /\ opts = IF role = "client" THEN SetupHost(config)
              ELSE [compression |-> FALSE, checksum |-> FALSE,
                    newPacket |-> FALSE]
    /\ peers = << >>
    /\ hostCreated = (role = "client")
    /\ running = FALSE
    /\ serverPeer = NullPeer
    /\ host = (role = "client")
    /\ initialized = TRUE
    /\ tpeer = FreeSlots
    /\ loops = [i \in Loops |-> IdleLoop]
    /\ readyTicks = 0
    /\ creating = NoCreate
    /\ crashed = FALSE
    /\ eventCallbacks = << >>
    /\ waits = [c \in Calls |-> NoWait]
    /\ initCount = 1
    /\ engineUp = TRUE
    /\ otherInit = [o \in Others |-> FALSE]
    /\ threads = [o \in Others |-> "idle"]
    /\ settled = << >>
    /\ engineOps = << >>
    /\ attempts = << >>
    /\ wire = << >>
    /\ last = Op("new", NullPeer, "void", 0)
    /\ emitted = << >>
    /\ calls = << >>

\* ------------------------------------------------------ RawPacketBuilder
\* DataView.setUint16 / setUint32 / setFloat32 / setFloat64: the bytes stored,
\* given in little-endian order; big-endian is the other order
Endian(bytesLE, littleEndian) ==
    IF littleEndian THEN bytesLE
    ELSE [k \in 1..Len(bytesLE) |-> bytesLE[Len(bytesLE) + 1 - k]]

\* The write calls drawn.  src is what the call is asked to store; typed is
\* whether the argument of writeBytes has a length (a Uint8Array, a Buffer, an
\* array) or is an ArrayBuffer, which has none.  0xDEADBEEF is taken as its
\* halves 0xDEAD and 0xBEEF; 1.0 is 3F800000 as a float32 and
\* 3FF0000000000000 as a float64; "\u00E9!" is C3 A9 21 in UTF-8.
WriteRequests ==
    {[op |-> "writeUint8", src |-> << 300 % 256 >>, typed |-> TRUE]}
    \cup {[op |-> "writeUint16", src |-> Endian(<< 258 % 256, 258 \div 256 >>, le), typed |-> TRUE] :
             le \in BOOLEAN}
    \cup {[op |-> "writeUint32",
           src |-> Endian(<< 48879 % 256, 48879 \div 256,
                             57005 % 256, 57005 \div 256 >>, le),
           typed |-> TRUE] : le \in BOOLEAN}
    \cup {[op |-> "writeFloat32", src |-> Endian(<< 0, 0, 128, 63 >>, TRUE),
           typed |-> TRUE]}
    \cup {[op |-> "writeFloat64",
           src |-> Endian(<< 0, 0, 0, 0, 0, 0, 240, 63 >>, TRUE),
           typed |-> TRUE]}
    \cup {[op |-> "writeString", src |-> << 195, 169, 33 >>, typed |-> TRUE]}
    \cup {[op |-> "writeBytes", src |-> << 1, 2 >>, typed |-> t] : t \in BOOLEAN}

\* ToIndex of the offset, as DataView.set*, new Uint8Array(buffer, offset) and
\* ArrayBuffer.slice take it: NaN is index 0
ToIndex(o) == IF o = NaN THEN 0 ELSE o

\* this.offset += n, where n is a width, encoded.length or bytes.length
\* (undefined for an ArrayBuffer, and the sum is then NaN)
AddOffset(o, n) == IF o = NaN \/ n = NaN THEN NaN ELSE o + n

\* RawPacketBuilder.getPacketData: this.buffer.slice(0, this.offset)
GetPacketData(b) == SubSeq(b.buf, 1, ToIndex(b.offset))

\* RawPacketBuilder.writeUint8 .. writeBytes.  DataView.set* throws a
\* RangeError when the value does not fit after the offset, and so does
\* Uint8Array.set for a source longer than the view; set copies as many
\* bytes as the length of its source, none for a source without a length.
BuilderWrite(w) ==
    /\ ~crashed
    /\ NoTimed
    /\ NoEngine
    /\ NoSends
    /\ builder.offset = NaN => Len(builder.written) + Len(w.src) <= MaxSize
    /\ LET idx == ToIndex(builder.offset)
           n == IF w.typed THEN Len(w.src) ELSE 0
           throws == idx + n > MaxSize
       IN  /\ builder' =
                 IF throws THEN builder
                 ELSE [buf |-> [k \in 1..MaxSize |->
                                  IF k > idx /\ k <= idx + n THEN w.src[k - idx]
                                  ELSE builder.buf[k]],
                       offset |-> AddOffset(builder.offset,
                                            IF w.typed THEN Len(w.src) ELSE NaN),
                       written |-> builder.written \o w.src]
           /\ last' = [Op(w.op, NullPeer, IF throws THEN "raised" ELSE "builder", 0)
                       EXCEPT !.raised = throws]
    /\ emitted' = << >>
    /\ calls' = << >>
    /\ UNCHANGED << config, opts, role, peers, hostCreated, running, serverPeer,
                    host, initialized, tpeer, loops, readyTicks, creating,
                    crashed >>

\* RawPacketBuilder.reset
BuilderReset ==
    /\ ~crashed
    /\ NoTimed
    /\ NoEngine
    /\ NoSends
    /\ builder' = [builder EXCEPT !.offset = 0, !.written = << >>]
    /\ last' = Op("reset", NullPeer, "builder", 0)
    /\ emitted' = << >>
    /\ calls' = << >>
    /\ UNCHANGED << config, opts, role, peers, hostCreated, running, serverPeer,
                    host, initialized, tpeer, loops, readyTicks, creating,
                    crashed >>

\* a session of the CommonJS build made with the default options
Init ==
    /\ config = [esm |-> FALSE, compression |-> FALSE, checksum |-> FALSE,
                 newPacket |-> FALSE]
    /\ InitRest

\* a session of either build made with any options
InitConfig ==
    /\ config \in [esm : BOOLEAN, compression : BOOLEAN, checksum : BOOLEAN,
                    newPacket : BOOLEAN]
    /\ InitRest

Intervals == 1..MaxInterval
Statuses == {-1, 0}

\* Inputs are drawn only where the code reads them: every other choice gives
\* the same step.

\* what the next service() call can get from the transport
Outs == IF hostCreated /\ host THEN ServiceOutcomes ELSE {NoEvent}

\* a subscriber can call stop() inline only in a step that publishes
StopChoices(out) == IF out.type \in {"none", "fatal"} THEN {FALSE} ELSE BOOLEAN

\* <<dataOk, st>> for a send to p
SendInputs(p) ==
    IF p = NullPeer THEN {<< TRUE, -1 >>}
    ELSE {<< FALSE, -1 >>}
         \cup {<< TRUE, st >> : st \in IF ~host \/ tpeer[p] = "connected"
                                      THEN Statuses ELSE {-1}}

\* whether the dereference of p can end the process
CrashChoices(p, dataOk) == IF Dangling(p) /\ dataOk THEN BOOLEAN ELSE {FALSE}

\* <<createOk, connectOk>> for Client.connect
ConnectInputs ==
    {<< c, n >> \in BOOLEAN \X BOOLEAN :
        /\ (hostCreated \/ ~initialized) => c
        /\ ~c => n}

\* the arguments drawn for listen(pollIntervalMs, maxPollIntervalMs)
PollArgs == {pm \in Intervals \X Intervals : pm[1] <= pm[2]}

\* <<avail, createOk>> for the rest of createServer
CreateInputs == {<< TRUE, TRUE >>, << TRUE, FALSE >>, << FALSE, TRUE >>}

\* the session API, listen() being called with its default arguments and a
\* send never following another send directly
NextSession ==
    \/ \E out \in Outs : ServiceCall(out)
    \/ \E i \in Loops, out \in IF running THEN Outs ELSE {NoEvent} :
          \E stopInline \in StopChoices(out) : Wake(i, out, stopInline)
    \/ \E out \in Outs : \E stopInline \in StopChoices(out) :
          Listen(DefaultPoll, DefaultMaxPoll, out, stopInline)
    \/ Stop
    \/ /\ wire = << >>
       /\ \E name \in SendOps, p \in Handles : \E inp \in SendInputs(p) :
             \E crash \in CrashChoices(p, inp[1]) :
                Send(name, p, DefaultArg(name), inp[1], inp[2], crash)
    \/ /\ wire = << >>
       /\ \E name \in SendOps : \E inp \in SendInputs(serverPeer) :
             \E crash \in CrashChoices(serverPeer, inp[1]) :
                ClientSend(name, DefaultArg(name), inp[1], inp[2], crash)
    \/ \E name \in DisconnectOps, p \in Handles :
          \E crash \in CrashChoices(p, TRUE) : Disconnect(name, p, crash)
    \/ \E name \in DisconnectOps : \E crash \in CrashChoices(serverPeer, TRUE) :
          ClientDisconnect(name, crash)
    \/ \E inp \in ConnectInputs,
          out \in OutcomesOn([p \in Peers |-> "connecting"]) :
          \E stopInline \in StopChoices(out) :
             ClientConnect(FALSE, FALSE, inp[1], inp[2], out, stopInline)
    \/ CreateServerCall(FALSE)
    \/ \E inp \in CreateInputs :
          CreateServerDone(inp[1], inp[2], DefaultPoll, DefaultMaxPoll,
                           NoEvent, FALSE)
    \/ Destroy
    \/ Deinitialize
    \/ \E ok \in BOOLEAN : Initialize(ok)

SpecSession == Init /\ [][NextSession]_vars

\* no activation of listen() is awaiting its timer
Quiet == \A i \in Loops : loops[i].pc # "sleep"

\* the interval of a poll loop, one loop at a time: a client that calls
\* connect(), or listen() with any arguments, only while no loop is active
InitPoll == Init /\ role = "client"

NextPoll ==
    \/ /\ Quiet
       /\ \E pm \in PollArgs, out \in Outs : \E stopInline \in StopChoices(out) :
             Listen(pm[1], pm[2], out, stopInline)
    \/ /\ Quiet
       /\ \E held \in BOOLEAN, out \in OutcomesOn([p \in Peers |-> "connecting"]) :
             \E stopInline \in StopChoices(out) :
                ClientConnect(FALSE, held, TRUE, TRUE, out, stopInline)
    \/ \E i \in Loops, out \in IF running THEN Outs ELSE {NoEvent} :
          \E stopInline \in StopChoices(out) : Wake(i, out, stopInline)
    \/ Stop

SpecPoll == InitPoll /\ [][NextPoll]_vars

\* starting and stopping the poll loops of a client that connects to nothing,
\* listen() being called with its default arguments
NextStop ==
    \/ \E out \in Outs : \E stopInline \in StopChoices(out) :
          Listen(DefaultPoll, DefaultMaxPoll, out, stopInline)
    \/ \E i \in Loops, out \in IF running THEN Outs ELSE {NoEvent} :
          \E stopInline \in StopChoices(out) : Wake(i, out, stopInline)
    \/ Stop
    \/ Destroy

SpecStop == InitPoll /\ [][NextStop]_vars

\* the timers of the event loop fire: a sleeping poll loop is woken
SpecStopFair ==
    SpecStop /\ \A i \in Loops : WF_vars(\E out \in ServiceOutcomes,
                                            stopInline \in BOOLEAN :
                                            Wake(i, out, stopInline))

\* a client that calls connect({timeoutMs}) while its poll loop runs, is
\* stopped and its timers fire; a call starts a loop only while none is active
NextConnect ==
    \/ \E inp \in ConnectInputs,
          out \in OutcomesOn([p \in Peers |-> "connecting"]) :
          \E stopInline \in StopChoices(out) :
             /\ running \/ Quiet
             /\ ClientConnect(TRUE, FALSE, inp[1], inp[2], out, stopInline)
    \/ \E c \in Calls : ConnectTimer(c)
    \/ \E i \in Loops, out \in IF running THEN Outs ELSE {NoEvent} :
          \E stopInline \in StopChoices(out) : Wake(i, out, stopInline)
    \/ Stop
    \/ ClientDisconnect("disconnectNow", FALSE)

SpecConnect == InitPoll /\ [][NextConnect]_vars

\* a client with subscribers of 'connect' that return or throw, connecting
\* and serving events with one poll loop at a time
NextEmit ==
    \/ \E fn \in ListenerFns : Subscribe(fn)
    \/ \E fn \in ListenerFns : Unsubscribe(fn)
    \/ /\ Quiet
       /\ \E out \in OutcomesOn([p \in Peers |-> "connecting"]) :
             \E stopInline \in StopChoices(out) :
                ClientConnect(FALSE, FALSE, TRUE, TRUE, out, stopInline)
    \/ \E i \in Loops, out \in IF running THEN Outs ELSE {NoEvent} :
          \E stopInline \in StopChoices(out) : Wake(i, out, stopInline)
    \/ \E out \in Outs : ServiceCall(out)
    \/ Stop
    \/ ClientDisconnect("disconnectNow", FALSE)

SpecEmit == InitPoll /\ [][NextEmit]_vars

\* whether enet_initialize is run by an initialize() of a wrapper with flag
InitChoices(flag) == IF ~flag /\ initCount = 0 THEN BOOLEAN ELSE {TRUE}

\* the sessions of a process acquire and release the engine, one call at a time
NextEngine ==
    \/ \E ok \in InitChoices(initialized) : Initialize(ok)
    \/ Deinitialize
    \/ \E o \in Others : \E ok \in InitChoices(otherInit[o]) :
          OtherInitialize(o, ok)
    \/ \E o \in Others : OtherDeinitialize(o)

SpecEngine == Init /\ [][NextEngine]_vars

\* sessions of both builds and roles, made with any options, create and
\* destroy their host
NextConfig ==
    \/ CreateServerCall(FALSE)
    \/ \E inp \in CreateInputs :
          CreateServerDone(inp[1], inp[2], DefaultPoll, DefaultMaxPoll,
                           NoEvent, FALSE)
    \/ Destroy
    \/ /\ Quiet
       /\ \E inp \in ConnectInputs,
             out \in OutcomesOn([p \in Peers |-> "connecting"]) :
             \E stopInline \in StopChoices(out) :
                ClientConnect(FALSE, FALSE, inp[1], inp[2], out, stopInline)
    \/ \E i \in Loops, out \in IF running THEN Outs ELSE {NoEvent} :
          \E stopInline \in StopChoices(out) : Wake(i, out, stopInline)
    \/ Stop

SpecConfig == InitConfig /\ [][NextConfig]_vars

\* the wrappers of several threads acquire and release the engine, their
\* instructions interleaved; the session's own calls run on the main thread
NextThreads ==
    \/ \E ok \in InitChoices(initialized) : Initialize(ok)
    \/ Deinitialize
    \/ \E o \in Others : ThreadAcquire(o)
    \/ \E o \in Others, ok \in BOOLEAN : ThreadEngineInit(o, ok)
    \/ \E o \in Others : ThreadUndo(o)
    \/ \E o \in Others : ThreadSet(o)
    \/ \E o \in Others : ThreadRelease(o)
    \/ \E o \in Others : ThreadTeardown(o)

SpecThreads == Init /\ [][NextThreads]_vars

\* a session of class Server
InitServer == Init /\ role = "server"

\* the answers of the engine to the sends of one broadcast(): one per peer
\* that has a connected record
BroadcastInputs ==
    {sts \in [Peers -> Statuses] :
        \A p \in Peers :
           (~\E k \in 1..Len(peers) : peers[k].id = p /\ peers[k].connected)
              => sts[p] = -1}

\* a server that is created, serves events with service(), disconnects peers
\* and broadcasts
NextBroadcast ==
    \/ CreateServerCall(FALSE)
    \/ \E inp \in CreateInputs :
          CreateServerDone(inp[1], inp[2], DefaultPoll, DefaultMaxPoll,
                           NoEvent, FALSE)
    \/ \E out \in Outs : ServiceCall(out)
    \/ \E p \in Peers : Disconnect("disconnect", p, FALSE)
    \/ \E dataOk \in BOOLEAN, sts \in BroadcastInputs :
          Broadcast(dataOk, sts, FALSE)

SpecBroadcast == InitServer /\ [][NextBroadcast]_vars

\* a RawPacketBuilder of MaxSize bytes is written to and reset
NextBuilder ==
    \/ \E w \in WriteRequests : BuilderWrite(w)
    \/ BuilderReset

SpecBuilder == InitServer /\ [][NextBuilder]_vars

\* a server sends to its peers, with any argument; after a reliable send() it
\* may go on with reliable send() calls to the same peer
NextSend ==
    \/ CreateServerCall(FALSE)
    \/ CreateServerDone(TRUE, TRUE, DefaultPoll, DefaultMaxPoll, NoEvent, FALSE)
    \/ \E out \in Outs : ServiceCall(out)
    \/ /\ wire = << >>
       /\ \E name \in SendOps, p \in Peers : \E arg \in SendArgs(name) :
             \E inp \in SendInputs(p) : Send(name, p, arg, inp[1], inp[2], FALSE)
    \/ /\ wire # << >>
       /\ last.op = "send"
       /\ wire[1].given = PACKET_FLAG_RELIABLE
       /\ \E inp \in SendInputs(wire[1].peer) :
             Send("send", wire[1].peer, TRUE, inp[1], inp[2], FALSE)

SpecSend == InitServer /\ [][NextSend]_vars

\* a server that is created and started with listen(), called with its default
\* arguments and only while no loop is active

NextServer ==
    \/ /\ Quiet
       /\ \E out \in Outs : \E stopInline \in StopChoices(out) :
             ServerListen(DefaultPoll, DefaultMaxPoll, out, stopInline)
    \/ \E i \in Loops, out \in IF running THEN Outs ELSE {NoEvent} :
          \E stopInline \in StopChoices(out) : Wake(i, out, stopInline)
    \/ Stop
    \/ ReadyTick
    \/ /\ Quiet
       /\ \E thenListen \in BOOLEAN : CreateServerCall(thenListen)
    \/ \E inp \in CreateInputs,
          out \in IF creating.thenListen THEN OutcomesOn(FreeSlots) ELSE {NoEvent} :
          \E stopInline \in StopChoices(out) :
             CreateServerDone(inp[1], inp[2], DefaultPoll, DefaultMaxPoll,
                              out, stopInline)
    \/ Destroy

SpecServer == InitServer /\ [][NextServer]_vars

\* ================================================================= claims
\* steps in which service() ran: called directly, by a pass of a poll loop, or
\* by the first pass that listen() and connect() run before they first await
ServiceOps == {"service", "poll", "listen", "connect"}

ErrorPubs(pubs) == {k \in 1..Len(pubs) : pubs[k].type = "error"}

\* C1: every Connect event for a peer P that service() obtains leaves exactly
\* one record for P in the registry, with connected = true; a record P already
\* had (the provisional one of Client.connect included) is updated in place:
\* same position, same address and port, and no other record is touched.
C1_ConnectRegisters ==
    [][ (last'.op \in ServiceOps /\ last'.ev.type = "connect") =>
          LET p == last'.ev.peer
          IN  /\ Count(peers', p) = 1
              /\ Get(peers', p).connected
              /\ (last'.op = "connect") =>
                    /\ Get(peers', p).address = "config.ip"
                    /\ Get(peers', p).port = "config.port"
              /\ (last'.op # "connect" /\ Has(peers, p)) =>
                    /\ Len(peers') = Len(peers)
                    /\ \A k \in 1..Len(peers) :
                          IF peers[k].id = p
                          THEN /\ peers'[k].id = p
                               /\ peers'[k].address = peers[k].address
                               /\ peers'[k].port = peers[k].port
                          ELSE peers'[k] = peers[k]
              /\ (last'.op # "connect" /\ ~Has(peers, p)) =>
                    peers' = Append(peers, Get(peers', p)) ]_vars

\* a Connect event turned the provisional record of Client.connect into a
\* connected one, in a pass of the poll loop
C1_Witness ==
    /\ last.op = "poll"
    /\ last.ev.type = "connect"
    /\ Has(peers, last.ev.peer)
    /\ Get(peers, last.ev.peer).connected
    /\ Get(peers, last.ev.peer).address = "config.ip"

\* C2: for every Disconnect event for a peer P that service() processes, P is
\* absent from the registry when the 'disconnect' subscribers run and when
\* service() returns; if P was not registered the registry is left as it was.
C2_DisconnectRemoves ==
    [][ (last'.op \in ServiceOps /\ last'.ev.type = "disconnect") =>
          LET p == last'.ev.peer
          IN  /\ ~Has(peers', p)
              /\ \E k \in 1..Len(emitted') :
                    emitted'[k].type = "disconnect" /\ emitted'[k].peer = p
              /\ \A k \in 1..Len(emitted') :
                    emitted'[k].type = "disconnect" => ~Has(emitted'[k].reg, p)
              /\ ~Has(peers, p) => peers' = peers
              /\ \A q \in Peers \ {p} :
                    Has(peers, q) => (Has(peers', q) /\ Get(peers', q) = Get(peers, q))
      ]_vars

\* service() processed a Disconnect event while another peer stayed registered
C2_Witness ==
    /\ last.op = "service"
    /\ last.ev.type = "disconnect"
    /\ Len(emitted) = 1
    /\ emitted[1].type = "disconnect"
    /\ tpeer[last.ev.peer] = "free"
    /\ peers # << >>

\* C3: disconnect(P), disconnectNow(P) and disconnectLater(P) on a registered
\* peer P have removed P's record when they return, in the call itself: no
\* service() call and no Disconnect event is involved, and the transport may
\* still hold the peer.
C3_DisconnectIsSynchronous ==
    (last.op \in DisconnectOps /\ last.wasReg) =>
        /\ ~Has(peers, last.peer)
        /\ calls = << last.op >>
        /\ last.ev = NoEvent
        /\ emitted = << >>

\* disconnect(P) returned with the record gone and the transport still
\* waiting for the peer's acknowledgment
C3_Witness ==
    /\ last.op = "disconnect"
    /\ last.wasReg
    /\ ~Has(peers, last.peer)
    /\ tpeer[last.peer] = "disconnecting"

\* C4: after disconnect, disconnectNow or disconnectLater on a registered peer
\* P, on a server session as on a client session, the send to P that follows
\* immediately returns a negative status and publishes an error on 'error',
\* and P is absent from the registry.
C4_SendAfterDisconnect ==
    [][ ( /\ last.op \in DisconnectOps
          /\ last.wasReg
          /\ last'.op \in SendOps
          /\ role = "server" => last'.peer = last.peer ) =>
          /\ last'.status < 0
          /\ ErrorPubs(emitted') # {}
          /\ ~Has(peers', last.peer) ]_vars

\* C5: send() and sendRawPacket() return a status and never raise, and every
\* call on a live host that returns a negative status has published an error
\* on 'error' during the call.
C5_NegativeStatusPublishes ==
    (last.op \in SendOps /\ host) =>
        /\ last.kind = "status"
        /\ ~last.raised
        /\ last.status < 0 => ErrorPubs(emitted) # {}

\* C6: on a client whose serverPeer is unset, each of send, sendRawPacket,
\* disconnect, disconnectNow and disconnectLater publishes the not-connected
\* error, reports the failure to its caller and invokes no addon method.
C6_UnsetServerPeer ==
    ( /\ role = "client"
      /\ last.op \in SendOps \cup DisconnectOps
      /\ last.spWas = NullPeer ) =>
        /\ \E k \in ErrorPubs(emitted) : emitted[k].err = "Not connected to server"
        /\ last.kind = "status"
        /\ last.status < 0
        /\ calls = << >>

\* steps that ran a pass of a poll loop: the first pass, run by listen() or
\* connect() before the first await, and the later ones, run when the timer fires
PassOps == {"listen", "connect", "poll"}

\* C7: for listen(pollIntervalMs, maxPollIntervalMs) with
\* 0 < pollIntervalMs <= maxPollIntervalMs, currentInterval is within
\* [pollIntervalMs, maxPollIntervalMs] both where it is passed to service()
\* and where it is passed to the sleep, whatever service() returned before.
C7_IntervalWithinBounds ==
    /\ \A i \in Loops :
          (loops[i].pc = "sleep" /\ 0 < loops[i].poll
                                /\ loops[i].poll <= loops[i].max) =>
              (loops[i].poll <= loops[i].cur /\ loops[i].cur <= loops[i].max)
    /\ (last.op \in PassOps /\ 0 < last.poll /\ last.poll <= last.max) =>
          (last.poll <= last.timeout /\ last.timeout <= last.max)

\* a loop sleeps on an interval the cap cut short: doubling would exceed max
C7_Witness ==
    \E i \in Loops :
        /\ loops[i].pc = "sleep"
        /\ last.op = "poll"
        /\ last.loop = i
        /\ loops[i].cur = loops[i].max
        /\ loops[i].poll < last.timeout
        /\ last.timeout < loops[i].max
        /\ last.timeout * 2 > loops[i].max

\* C8: when a pass of the poll loop gets an event from service(), the sleep
\* that ends the pass uses pollIntervalMs, and so does the service() call of
\* the next pass of that loop, whatever the interval had backed off to: the
\* pass leaves the loop sleeping on pollIntervalMs, nothing but a pass of the
\* loop changes the interval it sleeps on, and its next pass hands that
\* interval to service().
C8_EventResetsInterval ==
    [][ \A i \in Loops :
          /\ ( /\ last'.op \in PassOps
               /\ last'.loop = i
               /\ last'.ev.type # "none" ) =>
                 /\ loops'[i].pc = "sleep"
                 /\ loops'[i].cur = last'.poll
                 /\ loops'[i].poll = last'.poll
          /\ ( /\ loops[i].pc = "sleep"
               /\ last'.op = "poll"
               /\ last'.loop = i ) =>
                 /\ last'.timeout = loops[i].cur
                 /\ last'.poll = loops[i].poll
          /\ ( /\ loops[i].pc = "sleep"
               /\ loops'[i].pc = "sleep"
               /\ last'.loop # i ) =>
                 loops'[i] = loops[i] ]_vars

\* a pass served with a backed-off timeout got an event, and the loop sleeps
\* on the base interval
C8_Witness ==
    \E i \in Loops :
        /\ last.op = "poll"
        /\ last.loop = i
        /\ last.ev.type \in {"connect", "disconnect", "receive"}
        /\ last.timeout > 2 * loops[i].poll
        /\ loops[i].pc = "sleep"
        /\ loops[i].cur = loops[i].poll

\* C9: after stop(), unless listen() sets running again, every sleeping loop
\* ends: its next while test sees running = false and it calls service() no
\* more; a stop() made by a subscriber during a service() call leaves that
\* call and its pass to complete as they would have.
C9_StopTerminatesLoop ==
    /\ \A i \in Loops :
          (loops[i].pc = "sleep" /\ ~running) ~> (loops[i].pc # "sleep" \/ running)
    /\ [][ \A i \in Loops :
             /\ (loops[i].pc = "sleep" /\ ~running /\ loops'[i] # loops[i]) =>
                    /\ loops'[i].pc = "idle"
                    /\ last'.op = "exit"
                    /\ calls' = << >>
                    /\ emitted' = << >>
                    /\ peers' = peers
             /\ ( /\ last'.op \in PassOps
                  /\ last'.loop = i
                  /\ ~last'.raised
                  /\ ~running' ) =>
                    /\ loops'[i].pc = "sleep"
                    /\ "hostService" \in {calls'[k] : k \in 1..Len(calls')} ]_vars

\* a loop has ended at its while test after stop()
C9_Witness ==
    \E i \in Loops :
        /\ last.op = "exit"
        /\ last.loop = i
        /\ loops[i].pc = "idle"
        /\ ~running

\* C10: when service() raises inside a pass of a poll loop, that loop ends and
\* no other does, the error is published on 'error', the registry and the
\* host are as they were, and a listen() called next runs a pass that calls
\* service() again.
C10_FatalEndsOnlyThatRun ==
    [][ /\ \A i \in Loops :
             ( /\ last'.op \in {"listen", "poll"}
               /\ last'.loop = i
               /\ last'.raised ) =>
                 /\ loops'[i].pc = "idle"
                 /\ \A j \in Loops \ {i} : loops'[j] = loops[j]
                 /\ \E k \in ErrorPubs(emitted') : emitted'[k].err # ""
                 /\ peers' = peers
                 /\ hostCreated' = hostCreated
                 /\ host' = host
                 /\ tpeer' = tpeer
                 /\ initialized' = initialized
        /\ ( /\ last.op \in {"listen", "poll"}
             /\ last.raised
             /\ last'.op = "listen" ) =>
                 /\ last'.loop \in Loops
                 /\ (loops'[last'.loop].pc = "sleep" \/ last'.raised)
                 /\ calls' # << >>
                 /\ calls'[Len(calls')] = "hostService" ]_vars

\* a pass of one loop has ended it on a fatal error while a peer is
\* registered and another loop sleeps
C10_Witness ==
    /\ last.op = "poll"
    /\ last.raised
    /\ loops[last.loop].pc = "idle"
    /\ ErrorPubs(emitted) # {}
    /\ peers # << >>
    /\ hostCreated
    /\ \E j \in Loops : loops[j].pc = "sleep"

\* C11: when the timer of connect({timeoutMs > 0}) expires before a Connect
\* event for the pending handle was published, the promise connect() returned
\* is rejected with the connect-timeout error.
C11_TimeoutRejects ==
    \A k \in 1..Len(settled) :
        settled[k].what = "timer" => settled[k].outcome = "rejected"

\* C12: once connect({timeoutMs > 0}) has settled, by a matching Connect event
\* or by its timer, neither its timer nor a 'connect' subscriber it registered
\* is still registered.
C12_NothingLeftRegistered ==
    \A k \in 1..Len(settled) :
        settled[k].what \in {"event", "timer"} =>
            /\ ~waits[settled[k].call].timer
            /\ \A j \in 1..Len(eventCallbacks) :
                  eventCallbacks[j].call # settled[k].call

\* C13: connect({timeoutMs > 0}) settles once, and a Connect event for the
\* same handle that arrives after the timer fired runs no code that the call
\* registered.
C13_NoLateCode ==
    \A k \in 1..Len(settled) : settled[k].what # "late"

\* C14: a connect() without timeout that has started its poll loop does not
\* complete while that loop is active: its promise settles in the very step in
\* which the loop ends, by the while test observing stop() or by a fatal
\* service() error, and in no other step.
C14_ServesUntilLoopEnds ==
    [][ /\ \A c \in Calls :
              waits'[c].loop # 0 => loops'[waits'[c].loop].pc = "sleep"
        /\ \A c \in Calls :
              waits[c].loop # 0 =>
                 IF loops'[waits[c].loop].pc = "idle"
                 THEN /\ \E k \in 1..Len(settled') :
                            settled'[k] = Did(c, "served", "resolved")
                      /\ waits'[c] = NoWait
                      /\ last'.loop = waits[c].loop
                      /\ last'.op = "exit" \/ last'.raised
                 ELSE /\ waits'[c] = waits[c]
                      /\ \A k \in 1..Len(settled') : settled'[k].call # c
        /\ \A k \in 1..Len(settled') :
              settled'[k].what = "served" =>
                 IF settled'[k].call = 0
                 THEN /\ last'.op = "connect"
                      /\ last'.raised
                      /\ loops'[last'.loop].pc = "idle"
                 ELSE /\ waits[settled'[k].call].loop # 0
                      /\ loops'[waits[settled'[k].call].loop].pc = "idle" ]_vars

\* a connect() without timeout has returned because the while test of its
\* loop observed stop()
C14_Witness ==
    /\ last.op = "exit"
    /\ ~running
    /\ \E k \in 1..Len(settled) :
          settled[k].what = "served" /\ settled[k].call # 0

\* C15: a Client.connect() that gets a peer handle from the transport gets it
\* before any service() call of its poll loop, sets serverPeer to it and
\* stores a provisional record for it with connected = false under the
\* configured address; a record with connected = false becomes connected only
\* in a step whose service() call obtained a Connect event for that handle.
C15_ProvisionalRecord ==
    [][ /\ (last'.op = "connect" /\ last'.peer # NullPeer) =>
              LET p == last'.peer
              IN  /\ \E j \in 1..Len(calls') : calls'[j] = "connect"
                  /\ \A i, j \in 1..Len(calls') :
                        (calls'[i] = "hostService" /\ calls'[j] = "connect")
                           => j < i
                  /\ serverPeer' = p
                  /\ IF last'.ev = Ev("disconnect", p)
                     THEN ~Has(peers', p)
                     ELSE /\ Count(peers', p) = 1
                          /\ Get(peers', p).address = "config.ip"
                          /\ Get(peers', p).port = "config.port"
                          /\ Get(peers', p).connected
                                <=> (last'.ev = Ev("connect", p))
        /\ \A p \in Peers :
              ( /\ Has(peers, p) /\ ~Get(peers, p).connected
                /\ Has(peers', p) /\ Get(peers', p).connected ) =>
                 /\ last'.op \in ServiceOps
                 /\ last'.ev = Ev("connect", p) ]_vars

\* connect() has returned its handle, started its loop, and the first pass
\* found no event: the record of serverPeer is the provisional one
C15_Witness ==
    /\ last.op = "connect"
    /\ last.peer # NullPeer
    /\ serverPeer = last.peer
    /\ last.ev = NoEvent
    /\ \E i \in 1..Len(calls) : calls[i] = "hostService"
    /\ Has(peers, serverPeer)
    /\ ~Get(peers, serverPeer).connected

\* C16: the 'ready' publication that Server.listen() schedules comes before
\* the first service() call of the poll loop that listen() starts: while it
\* is still scheduled, the loop has not called service().
C16_ReadyBeforeFirstService ==
    (role = "server" /\ readyTicks > 0) =>
        \A i \in 1..Len(calls) : calls[i] # "hostService"

\* C17: when the port probe reports the address unavailable, createServer()
\* fails with the port-in-use error, publishes it, never calls createHost and
\* leaves hostCreated and the wrapper's host as they were.
C17_PortInUse ==
    [][ (\E createOk \in BOOLEAN, out \in OutcomesOn(FreeSlots),
            stopInline \in BOOLEAN :
            CreateServerDone(FALSE, createOk, DefaultPoll, DefaultMaxPoll,
                             out, stopInline)) =>
          /\ last'.raised
          /\ \E k \in ErrorPubs(emitted') :
                emitted'[k].err = "Port is already in use"
          /\ \A i \in 1..Len(calls') : calls'[i] # "createHost"
          /\ hostCreated' = hostCreated
          /\ host' = host
          /\ loops' = loops
          /\ readyTicks' = readyTicks ]_vars

\* createServer() has failed on a session without a host because the port
\* was in use
C17_Witness ==
    /\ last.op = "createServer"
    /\ last.raised
    /\ \E k \in ErrorPubs(emitted) : emitted[k].err = "Port is already in use"
    /\ ~hostCreated
    /\ ~host

\* C19: when the createServer() of Server.create(config), which runs on a
\* session that has no host yet, fails at the port probe or at the host
\* creation, the failure is raised to the caller (the promise is rejected) and
\* published, hostCreated is false and the wrapper holds no host.
C19_FailedCreateLeavesNoHost ==
    [][ ( /\ creating.active /\ ~creating.thenListen
          /\ ~hostCreated /\ ~host
          /\ last'.op = "createServer" ) =>
             IF hostCreated'
             THEN /\ ~last'.raised
                  /\ host'
                  /\ ErrorPubs(emitted') = {}
             ELSE /\ last'.raised
                  /\ ~host'
                  /\ ErrorPubs(emitted') # {} ]_vars

\* createServer() has failed at the host creation on a session without a host
C19_Witness ==
    /\ last.op = "createServer"
    /\ last.raised
    /\ calls = << "createHost" >>
    /\ \E k \in ErrorPubs(emitted) :
          emitted[k].err = "Failed to create ENet host"
    /\ ~hostCreated
    /\ ~host

\* C18: broadcast() attempts exactly one send for each record of the registry
\* that has connected = true, in the order of the registry, and none for any
\* other peer; a send that fails does not keep the later ones from being
\* attempted; the registry is left as it was.
C18_BroadcastAttempts ==
    [][ last'.op = "broadcast" =>
          /\ Len(attempts') = Len(Connected(peers))
          /\ \A k \in 1..Len(attempts') :
                attempts'[k].peer = Connected(peers)[k].id
          /\ Len(calls') = Len(attempts')
          /\ peers' = peers ]_vars

\* a broadcast to two connected peers whose first send failed and whose
\* second was queued
C18_Witness ==
    /\ last.op = "broadcast"
    /\ Len(attempts) >= 2
    /\ attempts[1].status = -1
    /\ attempts[2].status = 0
    /\ Len(peers) >= 2
    /\ attempts[1].peer = peers[1].id

Holders == {o \in Others : otherInit[o]}

\* C20: over any sequence of initialize() and deinitialize() calls of the
\* sessions of a process, enet_initialize runs only when the count is 0 and
\* every step of the count from 0 to 1 runs it; enet_deinitialize runs exactly
\* in the steps that take the count back to 0, when no session holds a slot
\* any more; the engine is up whenever some session holds one.
C20_EngineInitCount ==
    [][ /\ (\E k \in 1..Len(engineOps') :
               engineOps'[k] \in {"init", "initFailed"}) => initCount = 0
        /\ (initCount = 0 /\ initCount' = 1)
              <=> (engineOps' = << "acquire", "init" >>)
        /\ (initCount > 0 /\ initCount' = 0)
              <=> (engineOps' = << "release", "teardown" >>)
        /\ (\E k \in 1..Len(engineOps') : engineOps'[k] = "teardown") =>
              /\ ~initialized'
              /\ \A o \in Others : ~otherInit'[o]
              /\ engineUp /\ ~engineUp'
        /\ initCount' = Cardinality({o \in Others : otherInit'[o]})
                           + (IF initialized' THEN 1 ELSE 0)
        /\ engineUp' <=> (initCount' > 0) ]_vars

\* one of several sessions holding a slot has released it: no teardown, the
\* engine stays up for the others
C20_Witness ==
    /\ engineOps = << "release" >>
    /\ last.op = "deinitialize"
    /\ ~initialized
    /\ Holders # {}
    /\ initCount = Cardinality(Holders)
    /\ engineUp

\* C22: when enet_initialize fails, initialize() of the session does not
\* raise: it returns a failure value and publishes the init-failed error.
C22_InitFailureReported ==
    ( /\ last.op = "initialize"
      /\ \E k \in 1..Len(engineOps) : engineOps[k] = "initFailed" ) =>
         /\ ~last.raised
         /\ ErrorPubs(emitted) # {}

\* C23: while hostCreated is false (before the host is created and after
\* destroy()), a service() call, made directly or by a pass of a poll loop,
\* returns null without calling hostService, publishes nothing and leaves the
\* registry as it was.
C23_ServiceWithoutHost ==
    [][ (last'.op \in {"service", "poll"} /\ ~hostCreated) =>
          /\ last'.ev = NoEvent
          /\ ~last'.raised
          /\ calls' = << >>
          /\ emitted' = << >>
          /\ peers' = peers
          /\ tpeer' = tpeer ]_vars

\* service() was called right after destroy()
C23_Witness ==
    /\ last.op = "service"
    /\ ~hostCreated
    /\ ~host
    /\ calls = << >>

\* C24: a service() call on a session with a host makes exactly one
\* hostService call and gets at most one event; an event of kind connect,
\* disconnect or receive is published once, as its kind, with the registry
\* already updated, and is the value service() returns.
C24_OnePollOneEvent ==
    [][ (last'.op = "service" /\ hostCreated /\ host) =>
          /\ calls' = << "hostService" >>
          /\ Len(emitted') <= 1
          /\ last'.ev.type \in {"connect", "disconnect", "receive"} =>
                /\ Len(emitted') = 1
                /\ emitted'[1].type = last'.ev.type
                /\ emitted'[1].peer = last'.ev.peer
                /\ emitted'[1].reg = peers'
                /\ ~last'.raised
          /\ last'.ev = NoEvent => emitted' = << >> ]_vars

\* service() returned a Connect event it published with the new record
C24_Witness ==
    /\ last.op = "service"
    /\ last.ev.type = "connect"
    /\ Len(emitted) = 1
    /\ emitted[1].type = "connect"
    /\ Has(emitted[1].reg, last.ev.peer)

\* C26: destroy() never raises and publishes nothing; after it the registry
\* is empty, hostCreated is false and the wrapper holds no host; a destroy()
\* that follows a destroy() changes nothing.
C26_DestroyIdempotent ==
    [][ last'.op = "destroy" =>
          /\ ~last'.raised
          /\ emitted' = << >>
          /\ peers' = << >>
          /\ ~hostCreated'
          /\ ~host'
          /\ last.op = "destroy" =>
                /\ peers' = peers
                /\ hostCreated' = hostCreated
                /\ host' = host
                /\ tpeer' = tpeer
                /\ running' = running
                /\ loops' = loops
                /\ serverPeer' = serverPeer
                /\ initialized' = initialized ]_vars

\* destroy() was called on a session while one of its poll loops sleeps
C26_Witness ==
    /\ last.op = "destroy"
    /\ peers = << >>
    /\ ~hostCreated
    /\ ~host
    /\ \E i \in Loops : loops[i].pc = "sleep"

\* C25: a Receive event and an event of unknown type leave the registry as it
\* was; a Receive event is published once, as 'receive', for its peer and
\* with the payload the transport delivered; an event of unknown type is
\* published once, as an error, and under no other kind.
C25_ReceiveAndUnknown ==
    [][ (last'.op \in ServiceOps /\ last'.ev.type \in {"receive", "unknown"}) =>
          /\ last'.op # "connect" => peers' = peers
          /\ Len(emitted') = 1
          /\ emitted'[1].reg = peers'
          /\ IF last'.ev.type = "receive"
             THEN /\ emitted'[1].type = "receive"
                  /\ emitted'[1].peer = last'.ev.peer
                  /\ emitted'[1].data = "packet.data"
                  /\ last'.ev.data = "packet.data"
             ELSE /\ emitted'[1].type = "error"
                  /\ emitted'[1].err = "Unknown event type" ]_vars

\* service() got a Receive event from a registered peer
C25_Witness ==
    /\ last.op \in ServiceOps
    /\ last.ev.type = "receive"
    /\ Has(peers, last.ev.peer)
    /\ Len(emitted) = 1
    /\ emitted[1].data = "packet.data"

\* C27: when a Connect event is published to callbacks registered with on(),
\* every one of them is called, in the order of registration, whether or not
\* the ones before it threw; nothing of what they throw leaves service(), and
\* the poll loop that made the pass goes on to its next sleep.
C27_ThrowingSubscriber ==
    [][ (last'.op \in ServiceOps /\ last'.ev.type = "connect") =>
          /\ Len(settled') = Len(eventCallbacks)
          /\ \A k \in 1..Len(eventCallbacks) :
                settled'[k].what = IF eventCallbacks[k].fn = "thrower"
                                   THEN "threw" ELSE "ran"
          /\ eventCallbacks' = eventCallbacks
          /\ ~last'.raised
          /\ Len(emitted') = 1
          /\ last'.op # "service" => loops'[last'.loop].pc = "sleep" ]_vars

\* a pass of the poll loop published a Connect event to a callback that
\* threw and then to one that returned, and the loop sleeps again
C27_Witness ==
    /\ last.op = "poll"
    /\ last.ev.type = "connect"
    /\ Len(settled) = 2
    /\ settled[1].what = "threw"
    /\ settled[2].what = "ran"
    /\ loops[last.loop].pc = "sleep"

\* C21: with initialize() and deinitialize() running on several threads, in
\* every interleaving of their instructions the engine is initialized whenever
\* the initialized flag of some session is true.
C21_FlagImpliesEngine ==
    (initialized \/ \E o \in Others : otherInit[o]) => engineUp

C30_SubmissionOrder ==
    /\ \A k \in 1..Len(wire) : wire[k].id = k
    /\ [][ (last'.op = "send" /\ last'.kind = "status") =>
             /\ Len(calls') = 1
             /\ \/ wire' = wire
                \/ /\ Len(wire') = Len(wire) + 1
                   /\ SubSeq(wire', 1, Len(wire)) = wire
                   /\ wire'[Len(wire')].peer = last'.peer
                   /\ wire'[Len(wire')].status = last'.status ]_vars

\* two reliable send() calls in a row to one peer were both accepted
C30_Witness ==
    /\ last.op = "send"
    /\ Len(wire) = 2
    /\ wire[1].peer = wire[2].peer
    /\ wire[1].flags = PACKET_FLAG_RELIABLE
    /\ wire[2].flags = PACKET_FLAG_RELIABLE
    /\ wire[1].status = 0
    /\ wire[2].status = 0

\* C29: whenever the session has a host it created, the compression and
\* checksum settings of the transport are those of config.compression and
\* config.checksum, and its new-packet mode is the flag of the config.
C29_TogglesFromConfig ==
    (hostCreated /\ host) =>
        /\ opts.compression = config.compression
        /\ opts.checksum = config.checksum
        /\ opts.newPacket = config.newPacket

\* C31: after any sequence of successful writes, size() is the number of
\* bytes written since construction or the last reset(), and getPacketData()
\* is exactly those bytes in the order they were written.
C31_SizeAndData ==
    /\ builder.offset = Len(builder.written)
    /\ GetPacketData(builder) = builder.written

\* C32: after every sequence of writes and resets the cursor is a number
\* between 0 and the capacity of the buffer.
C32_CursorInBuffer ==
    /\ builder.offset # NaN
    /\ 0 <= builder.offset
    /\ builder.offset <= MaxSize

C34_ServerPeerRegistered ==
    (role = "client" /\ ~crashed /\ serverPeer # NullPeer) => Has(peers, serverPeer)

\* C35: the hostCreated flag of the session is true exactly when the native
\* wrapper holds a transport host.
C35_FlagMatchesHost == ~crashed => (hostCreated <=> host)

\* C36: whenever no poll loop is active on the session (none was started, or
\* each one ended after stop() or on a fatal service() error), running is false.
C36_IdleMeansNotRunning ==
    (~crashed /\ \A i \in Loops : loops[i].pc = "idle") => ~running

\* C37: at any time at most one poll loop is active on the session, whatever
\* the order of the listen(), connect() and stop() calls and of the wake-ups
\* of the loops.
C37_OneLoop == Cardinality({i \in Loops : loops[i].pc = "sleep"}) <= 1

\* C38: a loop starts on pollIntervalMs, and a pass that gets no event from
\* service() called with min(pollIntervalMs * 2^k, maxPollIntervalMs) sleeps
\* on min(pollIntervalMs * 2^(k+1), maxPollIntervalMs), which is also the
\* timeout of the service() call of its next pass: after k passes in a row
\* without an event the interval is min(pollIntervalMs * 2^k, maxPollIntervalMs).
\* The exponents go up to the one at which every loop drawn has reached its
\* cap (the default loop of connect(), 2 ms to 32 ms, reaches it at k = 4).
C38_Backoff ==
    [][ ( /\ last'.op \in PassOps
          /\ last'.loop # 0
          /\ ~last'.raised
          /\ last'.ev.type = "none"
          /\ loops'[last'.loop].pc = "sleep" ) =>
          LET lp == loops'[last'.loop]
          IN  /\ \E k \in 0..(MaxInterval + 2) :
                    last'.timeout = Min(lp.poll * 2^k, lp.max)
              /\ \A k \in 0..(MaxInterval + 2) :
                    last'.timeout = Min(lp.poll * 2^k, lp.max) =>
                       lp.cur = Min(lp.poll * 2^(k + 1), lp.max)
              /\ last'.op # "poll" => last'.timeout = lp.poll
              /\ last'.op = "poll" => last'.timeout = loops[last'.loop].cur
      ]_vars

\* a loop started on 1 ms with a cap of 3 ms has made two passes without an
\* event: the second was served with 2 ms and sleeps on the cap, not on 4 ms
C38_Witness ==
    /\ last.op = "poll"
    /\ last.ev.type = "none"
    /\ ~last.raised
    /\ last.poll = 1
    /\ last.max = 3
    /\ last.timeout = 2
    /\ loops[last.loop].pc = "sleep"
    /\ loops[last.loop].cur = 3

\* C39: a createServer() call that failed, at the port probe or at the
\* creation of the host, has published exactly one error and raised.
C39_OneErrorPerFailure ==
    (last.op = "createServer" /\ last.raised) =>
        Cardinality(ErrorPubs(emitted)) = 1

\* C40: between the calls of the sessions, the init count is the number of
\* wrappers whose initialized flag is true and is never below zero; an
\* initialize() on a wrapper that holds a slot acquires none, a deinitialize()
\* or a destructor on a wrapper that holds none releases none, and a failed
\* engine init leaves the count and the flags as they were.
C40_CountIsHolders ==
    /\ initCount = Cardinality(Holders) + (IF initialized THEN 1 ELSE 0)
    /\ initCount >= 0
    /\ [][ /\ (last'.op = "initialize" /\ initialized) =>
                 (initCount' = initCount /\ engineOps' = << >>)
           /\ (last'.op = "otherInitialize" /\ otherInit[last'.loop]) =>
                 (initCount' = initCount /\ engineOps' = << >>)
           /\ (last'.op = "deinitialize" /\ ~initialized) =>
                 (initCount' = initCount /\ engineOps' = << >>)
           /\ (last'.op = "otherDeinitialize" /\ ~otherInit[last'.loop]) =>
                 (initCount' = initCount /\ engineOps' = << >>)
           /\ (\E k \in 1..Len(engineOps') : engineOps'[k] = "initFailed") =>
                 /\ initCount' = initCount
                 /\ initialized' = initialized
                 /\ otherInit' = otherInit
           /\ (initCount' - initCount) \in {-1, 0, 1} ]_vars

\* a session that had released its slot was deinitialized again while others
\* hold theirs: nothing was released and the count is the number of holders
C40_Witness ==
    /\ last.op = "deinitialize"
    /\ engineOps = << >>
    /\ ~initialized
    /\ Cardinality(Holders) = 2
    /\ initCount = 2

====
